---- MODULE Spec2Model ----
(***************************************************************************)
(* Posting ledger of the jobs aggregator (PostedJobsManagerV2): the        *)
(* per-process in-memory database, the ledger file posted_jobs.json, its   *)
(* shared temp file, and the monthly archive files, with the save cycle    *)
(* of several processes interleaved at the level of file operations.       *)
(*                                                                         *)
(* Time is counted in ticks, TicksPerDay ticks to a day.  A timestamp      *)
(* (postedToDiscord, sourceDate) is a tick; the date string               *)
(* now.split('T')[0] is DayOf(tick); the month string slice(0,7) is        *)
(* MonthOf(tick).  A nullable date is <<>> (null) or <<tick>>.             *)
(***************************************************************************)
EXTENDS Integers, Sequences, FiniteSets, TLC

VARIABLES
  now,        \* Date.now(), in ticks
  advances,   \* how often the clock has been advanced
  ops,        \* how many manager calls have been started
  ledger,     \* posted_jobs.json: <<>> (no file) or <<[jobs, chan]>>
  tmpLedger,  \* posted_jobs.json.tmp, the one temp path all processes share
  archive,    \* archive/<month>.json: [Months -> Seq(instance)]
  pc,         \* per process: where it is in its run
  data,       \* per process: this.data = [jobs, chan]
  session,    \* per process: this.sessionChannelCounters (-1 = undefined)
  archCounts, \* per process: this.archiveChannelCounts
  activeJobs, \* per process: archiveOldJobs' activeJobs
  queue,      \* per process: archiveOldJobs' jobsByMonth entries still to do
  existing,   \* per process: archiveOldJobs' existingArchive of the month at hand
  issued,     \* history: highest number getChannelJobNumber returned, per channel
  since,      \* history, per channel: the processes whose run issued that number
              \* or started after it was issued
  recorded,   \* history: <<instance id, channel>> of every delivery recorded
  created,    \* history: every instance record as it was created
  mergeIn,    \* history, per process: the disk and memory jobs of the merge of its save
  lastIssue,  \* the getChannelJobNumber call just made, <<>> after any other step
  check,      \* the hasBeenPosted call just made, <<>> after any other step
  deployed,   \* which version of deduplicator.js runs: "none" until the first batch
  storeFile,  \* dedupe-store.json: <<>> (no file) or <<[ids, fingerprints]>>
  batch,      \* the deduplicateJobs call made last: <<>> or <<its record>>
  lastSeen,   \* history, per job: when a batch last held it (-1 = never)
  recordedAt, \* history, per job: when it was last classed net-new (-1 = never)
  globalFile, \* global-dedupe-store.json: <<>> (no file) or <<the store>>
  gstore,     \* per process: <<>> or <<this.store>> of its GlobalDedupeManager
  gcheck,     \* the global hasBeenPosted call just made, <<>> after any other step
  marks,      \* history, per fingerprint: the times markAsPosted recorded it
  hits,       \* history, per fingerprint: has a check answered true?
  probe,      \* a store file found damaged and what its manager made of it:
              \* <<>> or <<[store, file, loaded, outcomes]>>
  run,        \* per process: where main's posting loop is, <<>> between jobs
  outbox,     \* history, per process: the <<job, channel>> sent in its run
  lastSend,   \* the postJobToDiscord call just made, <<>> after any other step
  dsave,      \* saveDedupeStore under way and the state of the files it writes:
              \* [step, next, before, tmp, flushed, torn]
  fpcall,     \* the generateFingerprint calls just made on two jobs: <<>> or
              \* <<[impl, a, b, fa, fb, again]>>
  scan,       \* an archive directory found at startup and the channel counts
              \* read from it: <<>> or <<[dir, counts]>>
  fd,         \* per process: where the file it holds open for writing is now
  torn        \* <<file, state>> for the ledger ("ledger") or its temp file ("tmp")
              \* when it holds no complete document: "empty" or "mixed"

vars == <<now, advances, ops, ledger, tmpLedger, archive, pc, data, session,
          archCounts, activeJobs, queue, existing, issued, since, recorded, created,
          mergeIn, lastIssue, check, deployed, storeFile, batch, lastSeen,
          recordedAt, globalFile, gstore, gcheck, marks, hits, probe, run, outbox,
          lastSend, dsave, fpcall, scan, fd, torn>>

posting == <<ledger, tmpLedger, archive, pc, data, session, archCounts, activeJobs,
             queue, existing, issued, since, recorded, created, mergeIn, lastIssue,
             check>>
dedupe == <<deployed, storeFile, batch, lastSeen, recordedAt, dsave, fpcall>>
global == <<globalFile, gstore, gcheck, marks, hits>>
poster == <<run, outbox, lastSend>>
tempfile == <<fd, torn>>

-----------------------------------------------------------------------------
(* Bounds of the model *)

TicksPerDay == 2
MaxAdvances == 2
MaxOps == 2
MaxRunCalls == 4
MaxCalls == 2
MaxFiles == 3
MaxLen == 2

(* Program constants *)

ActiveWindowDays == 7
ReopeningWindowDays == 7
OriginalPostMaxDays == 7
ReopenMonths == 3
MonthDays == 30

Procs == {"p1", "p2"}
Channels == {"c1", "c2"}

\* A job as the fetchers hand it over: its URL-based id and the fields
\* generateJobId hashes.  Two jobs with the same employer|title|link
\* have the same hash id.
Jobs == {"j1"}
UrlId(j) == "u1"
Content(j) == "k1"

Days(n) == n * TicksPerDay
DayOf(t) == t \div TicksPerDay
\* postedToDiscord.slice(0, 7): calendar months are taken to be 30 days long
MonthOf(t) == DayOf(t) \div 30

MaxTime == MaxAdvances * Days(ReopenMonths * MonthDays)
Months == 0..MonthOf(MaxTime)

\* The clock moves by a tick (same day or the next) or by eight days.
Deltas == {1, Days(8)}

\* The source date a feed reports for a job: none, yesterday's, or one of
\* forty days ago.
SourceDates(t) == {<<>>, <<t - Days(1)>>, <<t - Days(40)>>}

Range(s) == {s[i] : i \in DOMAIN s}

-----------------------------------------------------------------------------
(* generateJobId: sha256 of employer|title|link, cut to 16 hex digits *)

generateJobId(j) == IF Content(j) = "k1" THEN "h1" ELSE "h2"

(* createEmptyDatabase *)

NoChan == [c \in Channels |-> 0]
createEmptyDatabase == [jobs |-> <<>>, chan |-> NoChan]

\* Does the file (the ledger or its temp file) hold an unfinished write?
Torn(f) == \E x \in torn : x[1] = f

(* loadPostedJobs: the file's V2 content, or an empty database without a   *)
(* file or when JSON.parse throws (lines 65-69)                            *)

loadPostedJobs ==
  IF ledger = <<>> \/ Torn("ledger") THEN createEmptyDatabase ELSE ledger[1]

(* loadArchiveChannelCounts: posts per channel over all archive files *)

RECURSIVE CountPosts(_, _)
CountPosts(s, c) ==
  IF s = <<>> THEN 0
  ELSE (IF c \in DOMAIN s[1].discordPosts THEN 1 ELSE 0) + CountPosts(Tail(s), c)

\* One file of the directory (lines 453-470): a file that JSON.parse rejects
\* ("garbage") is left by the catch, one that holds no array by the continue
FileCounts(file, c) ==
  IF file.kind = "array" THEN CountPosts(file.jobs, c) ELSE 0

RECURSIVE SumMonths(_, _, _)
SumMonths(dir, ms, c) ==
  IF ms = {} THEN 0
  ELSE LET m == CHOOSE x \in ms : TRUE
       IN FileCounts(dir[m], c) + SumMonths(dir, ms \ {m}, c)

\* A reconstruction that gives up at the first file it cannot use
archiveChannelCountsOrNone(dir) ==
  IF \A m \in DOMAIN dir : dir[m].kind = "array"
  THEN [c \in Channels |-> SumMonths(dir, DOMAIN dir, c)]
  ELSE [c \in Channels |-> 0]

archiveChannelCounts(dir) == [c \in Channels |-> SumMonths(dir, DOMAIN dir, c)]

\* The archive directory as the save cycle writes it: every file an array
ArchiveDir == [m \in Months |-> [kind |-> "array", jobs |-> archive[m]]]

loadArchiveChannelCounts == archiveChannelCounts(ArchiveDir)

-----------------------------------------------------------------------------
(* Instances *)

Instance(jobId, t, src, n) ==
  [id |-> <<jobId, DayOf(t), n>>, jobId |-> jobId, postedToDiscord |-> t,
   sourceDate |-> src, instanceNumber |-> n, discordPosts |-> <<>>]

\* new Date(job.postedToDiscord) > new Date(Date.now() - activeWindowDays * DAY)
\* An active window that holds nothing
IsActiveNever(job, t) == FALSE

IsActive(job, t) == job.postedToDiscord > t - Days(ActiveWindowDays)

\* a.sourceDate || a.postedToDiscord
RefDate(job) ==
  IF job.sourceDate = <<>> THEN job.postedToDiscord ELSE job.sourceDate[1]

WithJobId(jobs, jobId) == SelectSeq(jobs, LAMBDA job : job.jobId = jobId)

Min(S) == CHOOSE x \in S : \A y \in S : x <= y
Max(S) == CHOOSE x \in S : \A y \in S : x >= y

(* hasBeenPosted(jobId, jobData): TRUE = skip, FALSE = post it.            *)
(* jobData is <<>> (null) or <<[hash, src]>>, src the job's source date.   *)

\* Lookup without the retry under the content-hash id
LookupPrimaryOnly(jobs, jobId, jobData) == WithJobId(jobs, jobId)

Lookup(jobs, jobId, jobData) ==
  LET byId == WithJobId(jobs, jobId)
  IN IF byId = <<>> /\ jobData # <<>>
     THEN WithJobId(jobs, jobData[1].hash)
     ELSE byId

\* hasBeenPosted whose last return allows the delivery
hasBeenPostedFailOpen(jobs, jobId, jobData, t) ==
  LET instances == Lookup(jobs, jobId, jobData)
      original == Min({RefDate(i) : i \in Range(instances)})
  IN IF instances = <<>> THEN FALSE
     ELSE IF \E i \in Range(instances) : IsActive(i, t) THEN TRUE
     ELSE IF t - original > Days(OriginalPostMaxDays) THEN TRUE
     ELSE IF jobData # <<>> /\ jobData[1].src # <<>>
          THEN ~(t - jobData[1].src[1] <= Days(ReopeningWindowDays))
     ELSE FALSE

hasBeenPosted(jobs, jobId, jobData, t) ==
  LET instances == Lookup(jobs, jobId, jobData)
      original == Min({RefDate(i) : i \in Range(instances)})
      oldest == Min({i.postedToDiscord : i \in Range(instances)})
  IN IF instances = <<>> THEN FALSE
     ELSE IF \E i \in Range(instances) : IsActive(i, t) THEN TRUE
     ELSE IF t - original > Days(OriginalPostMaxDays) THEN TRUE
     ELSE IF jobData # <<>> /\ jobData[1].src # <<>>
          THEN ~(t - jobData[1].src[1] <= Days(ReopeningWindowDays))
     ELSE IF t - oldest >= Days(ReopenMonths * MonthDays) THEN FALSE
     ELSE TRUE

-----------------------------------------------------------------------------
\* The count taken from the data at every call, the session counter unused
getChannelJobNumberRecounting(d, sess, ac, c) ==
  LET start == CountPosts(d.jobs, c) + ac[c]
  IN [n |-> start + 1,
      session |-> [sess EXCEPT ![c] = start + 1],
      data |-> [d EXCEPT !.chan[c] = start + 1]]

(* getChannelJobNumber(channelId) on this.data d, the session counters and *)
(* the cached archive counts: the number returned and the state after.     *)

getChannelJobNumber(d, sess, ac, c) ==
  LET activeCount == CountPosts(d.jobs, c)
      persisted == IF d.chan[c] # 0 THEN d.chan[c] ELSE activeCount + ac[c]
      start == IF sess[c] = -1 THEN persisted ELSE sess[c]
  IN [n |-> start + 1,
      session |-> [sess EXCEPT ![c] = start + 1],
      data |-> [d EXCEPT !.chan[c] = start + 1]]

(* markAsPosted(jobId, jobData): pushes a new instance *)

markAsPosted(d, jobId, src, t) ==
  LET n == Len(WithJobId(d.jobs, jobId)) + 1
  IN [d EXCEPT !.jobs = Append(@, Instance(jobId, t, src, n))]

(* markAsPostedToChannel(jobData, messageId, channelId, type, number):     *)
(* number 0 stands for null.  The result tells whether the call returned   *)
(* true (and saved), the instance it wrote to, and the state after.        *)

\* A find that finds nothing
NoIndex(I) == 0

\* The first index among I, 0 when there is none (Array.prototype.find)
FirstIndex(I) == IF I = {} THEN 0 ELSE Min(I)

\* discordPosts replaced by the one entry
OnlyPost(posts, c, n) == [x \in {c} |-> n]

\* jobRecord.discordPosts[channelId] = {..., channelJobNumber} (lines 334-339)
SetPost(posts, c, n) == [x \in DOMAIN posts \cup {c} |-> IF x = c THEN n ELSE posts[x]]

markAsPostedToChannel(d, sess, ac, jobId, src, c, number, t) ==
  LET found == FirstIndex({i \in DOMAIN d.jobs :
                            d.jobs[i].jobId = jobId /\ IsActive(d.jobs[i], t)})
      alreadyPostedToday ==
        \E job \in Range(d.jobs) :
          job.jobId = jobId /\ DayOf(job.postedToDiscord) = DayOf(t)
      n == Len(WithJobId(d.jobs, jobId)) + 1
      jobs1 == IF found = 0 THEN Append(d.jobs, Instance(jobId, t, src, n)) ELSE d.jobs
      at == IF found = 0 THEN Len(jobs1) ELSE found
      d1 == [d EXCEPT !.jobs = jobs1]
      g == getChannelJobNumber(d1, sess, ac, c)
      d2 == IF number = 0 THEN g.data ELSE d1
      final == IF number = 0 THEN g.n ELSE number
      posts == d2.jobs[at].discordPosts
      posts2 == SetPost(posts, c, final)
  IN IF found = 0 /\ alreadyPostedToday
     THEN [ok |-> FALSE, data |-> d, session |-> sess, fresh |-> FALSE,
           id |-> <<>>, n |-> 0]
     ELSE [ok |-> TRUE,
           data |-> [d2 EXCEPT !.jobs[at].discordPosts = posts2],
           session |-> IF number = 0 THEN g.session ELSE sess,
           fresh |-> (found = 0),
           id |-> d2.jobs[at].id,
           n |-> final]

-----------------------------------------------------------------------------
(* savePostedJobs, lines 607-662: the merge of the reloaded disk jobs and  *)
(* the memory snapshot in a Map keyed by instance id (insertion order).    *)

IndexOfId(m, id) == FirstIndex({i \in DOMAIN m : m[i].id = id})

\* mergedJobs.set(job.id, job)
MapSet(m, job) ==
  LET i == IndexOfId(m, job.id)
  IN IF i = 0 THEN Append(m, job) ELSE [m EXCEPT ![i] = job]

RECURSIVE DiskMap(_, _)
DiskMap(m, jobs) ==
  IF jobs = <<>> THEN m ELSE DiskMap(MapSet(m, jobs[1]), Tail(jobs))

\* {...(existing.discordPosts || {}), ...job.discordPosts}
Spread(a, b) ==
  [c \in DOMAIN a \cup DOMAIN b |-> IF c \in DOMAIN b THEN b[c] ELSE a[c]]

\* MergeOne with the equal-timestamp branch overwriting instead of merging
MergeOneOverwrite(m, job) ==
  LET i == IndexOfId(m, job.id)
  IN IF i = 0 THEN Append(m, job)
     ELSE IF job.postedToDiscord >= m[i].postedToDiscord THEN [m EXCEPT ![i] = job]
     ELSE m

MergeOne(m, job) ==
  LET i == IndexOfId(m, job.id)
  IN IF i = 0 THEN Append(m, job)
     ELSE IF job.postedToDiscord > m[i].postedToDiscord THEN [m EXCEPT ![i] = job]
     ELSE IF job.postedToDiscord = m[i].postedToDiscord
          THEN IF DOMAIN job.discordPosts # {}
               THEN [m EXCEPT ![i].discordPosts = Spread(@, job.discordPosts)]
               ELSE m
     ELSE m

RECURSIVE MergeMemory(_, _)
MergeMemory(m, memoryJobs) ==
  IF memoryJobs = <<>> THEN m
  ELSE MergeMemory(MergeOne(m, memoryJobs[1]), Tail(memoryJobs))

MergedJobs(diskJobs, memoryJobs) == MergeMemory(DiskMap(<<>>, diskJobs), memoryJobs)

-----------------------------------------------------------------------------
(* archiveOldJobs, lines 497-531: the partition and the grouping by month  *)

StillActive(jobs, t) == SelectSeq(jobs, LAMBDA job : IsActive(job, t))
JobsToArchive(jobs, t) == SelectSeq(jobs, LAMBDA job : ~IsActive(job, t))

\* Object.entries(jobsByMonth): months in the order they first occur
RECURSIVE JobsByMonth(_)
JobsByMonth(jobs) ==
  IF jobs = <<>> THEN <<>>
  ELSE LET month == MonthOf(jobs[1].postedToDiscord)
       IN <<[month |-> month,
             jobs |-> SelectSeq(jobs, LAMBDA j : MonthOf(j.postedToDiscord) = month)]>>
          \o JobsByMonth(SelectSeq(jobs, LAMBDA j : MonthOf(j.postedToDiscord) # month))

(* lines 550-555: merge into the month's archive, sorted by postedToDiscord *)

\* Array.prototype.sort is stable: x goes behind every element not later than it
InsertByPosted(s, x) ==
  LET k == Cardinality({i \in DOMAIN s : s[i].postedToDiscord <= x.postedToDiscord})
  IN SubSeq(s, 1, k) \o <<x>> \o SubSeq(s, k + 1, Len(s))

RECURSIVE SortByPosted(_)
SortByPosted(s) ==
  IF s = <<>> THEN <<>>
  ELSE InsertByPosted(SortByPosted(SubSeq(s, 1, Len(s) - 1)), s[Len(s)])

MergedArchive(existingArchive, jobs) ==
  LET existingIds == {j.id : j \in Range(existingArchive)}
      newJobs == SelectSeq(jobs, LAMBDA j : j.id \notin existingIds)
  IN SortByPosted(existingArchive \o newJobs)

-----------------------------------------------------------------------------
(* The rolling dedupe store (processors/deduplicator.js), in its 7-day and *)
(* its 14-day version.  A store is [ids, fingerprints], each a Map from    *)
(* key to the timestamp it was last set at; a job is [id, fingerprint].    *)

Versions == {"v7", "v14"}
DEDUPE_TTL_DAYS(v) == IF v = "v7" THEN 7 ELSE 14
DEDUPE_TTL_MS(v) == Days(DEDUPE_TTL_DAYS(v))

DedupeJobs ==
  {[id |-> "i1", fingerprint |-> "f1"], [id |-> "i1", fingerprint |-> "f2"],
   [id |-> "i2", fingerprint |-> "f1"]}
Batches == {<<a>> : a \in DedupeJobs} \cup {<<a, b>> : a, b \in DedupeJobs}

\* The clock steps between batches
DedupeDeltas(v) == {DEDUPE_TTL_MS(v) - 1, DEDUPE_TTL_MS(v)}

EmptyStore == [ids |-> <<>>, fingerprints |-> <<>>]

\* No save under way, no temp file, the store file as it is on the disk
NoSave == [step |-> "idle", next |-> <<>>, before |-> <<>>, tmp |-> "none",
           flushed |-> TRUE, torn |-> FALSE]

\* lines 28-78: the maps of the file; empty maps without a file or when
\* JSON.parse throws
loadDedupeStore ==
  IF storeFile = <<>> \/ dsave.torn THEN EmptyStore ELSE storeFile[1]

\* Map.prototype.set and the deletion of the entries older than the cutoff
Put(m, k, ts) == [x \in DOMAIN m \cup {k} |-> IF x = k THEN ts ELSE m[x]]
DropOlder(m, cutoff) == [x \in {k \in DOMAIN m : ~(m[k] < cutoff)} |-> m[x]]

\* A cleanup that empties the store
cleanupEverything(v, store, t) == EmptyStore

\* A cleanup that deletes nothing
cleanupNothing(v, store, t) == store

cleanupOldEntries(v, store, t) ==
  [ids |-> DropOlder(store.ids, t - DEDUPE_TTL_MS(v)),
   fingerprints |-> DropOlder(store.fingerprints, t - DEDUPE_TTL_MS(v))]

(* The loop body of deduplicateJobs on the running result r = [stores,     *)
(* unique, classes]: stores holds the store before the first job and after *)
(* each job, classes the class of each job.                                *)

Step(r, store, class, out) ==
  [stores |-> Append(r.stores, store),
   unique |-> r.unique \o out,
   classes |-> Append(r.classes, class)]

\* lines 159-180
checkAndMark7(r, job, t) ==
  LET store == r.stores[Len(r.stores)]
  IN IF job.id \in DOMAIN store.ids
     THEN Step(r, [store EXCEPT !.ids = Put(@, job.id, t)], "Duplicate", <<>>)
     ELSE IF job.fingerprint \in DOMAIN store.fingerprints
     THEN Step(r, [store EXCEPT !.fingerprints = Put(@, job.fingerprint, t)],
               "Duplicate", <<>>)
     ELSE Step(r, [ids |-> Put(store.ids, job.id, t),
                   fingerprints |-> Put(store.fingerprints, job.fingerprint, t)],
               "NetNew", <<job>>)

\* lines 641-657: a job already in the store goes to the output as well
checkAndMark14(r, job, t) ==
  LET store == r.stores[Len(r.stores)]
      seenById == job.id \in DOMAIN store.ids
      seenByFp == job.fingerprint \in DOMAIN store.fingerprints
  IN IF seenById \/ seenByFp
     THEN Step(r, [ids |-> IF seenById THEN Put(store.ids, job.id, t) ELSE store.ids,
                   fingerprints |-> IF seenByFp
                                    THEN Put(store.fingerprints, job.fingerprint, t)
                                    ELSE store.fingerprints],
               "Duplicate", <<job>>)
     ELSE Step(r, [ids |-> Put(store.ids, job.id, t),
                   fingerprints |-> Put(store.fingerprints, job.fingerprint, t)],
               "NetNew", <<job>>)

checkAndMark(v, r, job, t) ==
  IF v = "v7" THEN checkAndMark7(r, job, t) ELSE checkAndMark14(r, job, t)

RECURSIVE ForJobs(_, _, _, _)
ForJobs(v, r, jobs, t) ==
  IF jobs = <<>> THEN r
  ELSE ForJobs(v, checkAndMark(v, r, jobs[1], t), Tail(jobs), t)

\* deduplicateJobs(jobs) at time t on the store it loaded
deduplicateJobs(v, loaded, jobs, t) ==
  ForJobs(v, [stores |-> <<cleanupOldEntries(v, loaded, t)>>, unique |-> <<>>,
              classes |-> <<>>], jobs, t)

-----------------------------------------------------------------------------
(* generateFingerprint (deduplicator.js lines 692-699, helpers.js lines    *)
(* 40-47).  A string is a sequence of characters; a field of a job is a    *)
(* string or <<"null">> (absent).  The SHA-256 digest of a string is       *)
(* <<"sha256">> followed by the string.                                    *)

Absent == <<"null">>
Chars == {"a", "A", " "}
RECURSIVE StringsOf(_)
StringsOf(n) ==
  IF n = 0 THEN {<<>>}
  ELSE StringsOf(n - 1) \cup {Append(s, ch) : s \in StringsOf(n - 1), ch \in Chars}

\* x || '' and x || y || '': the empty string and an absent field are falsy
OrEmpty(x) == IF x = Absent THEN <<>> ELSE x
Either(x, y) == IF x # Absent /\ x # <<>> THEN x ELSE OrEmpty(y)

\* A toLowerCase that leaves the string as it is
sameCase(s) == s

toLowerCase(s) == [i \in DOMAIN s |-> IF s[i] = "A" THEN "a" ELSE IF s[i] = "B" THEN "b" ELSE s[i]]

RECURSIVE trimStart(_)
trimStart(s) == IF s # <<>> /\ s[1] = " " THEN trimStart(Tail(s)) ELSE s
RECURSIVE trimEnd(_)
trimEnd(s) ==
  IF s # <<>> /\ s[Len(s)] = " " THEN trimEnd(SubSeq(s, 1, Len(s) - 1)) ELSE s
trim(s) == trimEnd(trimStart(s))

sha256(s) == <<"sha256">> \o s

\* `${title}|${company}|${location}`, hashed
HashOf(title, company, location) ==
  sha256(title \o <<"|">> \o company \o <<"|">> \o location)

\* deduplicator.js lines 692-699
generateFingerprint(job) ==
  HashOf(trim(toLowerCase(OrEmpty(job.title))),
         trim(toLowerCase(OrEmpty(job.company))),
         trim(toLowerCase(OrEmpty(job.location))))

\* helpers.js lines 40-47
helpersGenerateFingerprint(job) ==
  HashOf(trim(toLowerCase(Either(job.job_title, job.title))),
         trim(toLowerCase(Either(job.employer_name, job.company_name))),
         trim(toLowerCase(Either(job.job_city, job.location))))

\* The jobs the fingerprint is taken of: any title, a few companies and
\* locations, fields that are absent
Titles == StringsOf(MaxLen) \cup {Absent}
Companies == {Absent, <<"b">>, <<"B", " ">>}
Locations == {Absent, <<"a">>, <<" ", "A">>}

NormalizedJobs ==
  {[title |-> t, company |-> c, location |-> l] :
     t \in Titles, c \in Companies, l \in Locations}

\* The job as the fetchers hand it to helpers.js: under the JSearch field
\* names, or under the plain ones
Shapes == {"jsearch", "plain"}
Raw(job, shape) ==
  IF shape = "jsearch"
  THEN [job_title |-> job.title, title |-> Absent, employer_name |-> job.company,
        company_name |-> Absent, job_city |-> job.location, location |-> Absent]
  ELSE [job_title |-> Absent, title |-> job.title, employer_name |-> Absent,
        company_name |-> job.company, job_city |-> Absent, location |-> job.location]

-----------------------------------------------------------------------------
(* GlobalDedupeManager (global-dedupe-manager.js): the store is            *)
(* [fingerprints |-> a map from fingerprint to its entry], an entry is     *)
(* [postedAt, channelId].                                                  *)

TTL_DAYS == 14

Fingerprints == {"g1", "g2"}

\* The default store of loadStore (lines 35-39)
DefaultStore == [fingerprints |-> <<>>]

\* daysSincePosted > TTL_DAYS (lines 65-69 and 100-103)
PastTTL(entry, t) == t - entry.postedAt > Days(TTL_DAYS)

Without(m, K) == [x \in DOMAIN m \ K |-> m[x]]

cleanup(store, t) ==
  [store EXCEPT !.fingerprints =
     Without(@, {f \in DOMAIN @ : PastTTL(@[f], t)})]

loadStore(t) == IF globalFile = <<>> THEN DefaultStore ELSE cleanup(globalFile[1], t)

(* hasBeenPosted(fingerprint): what it returns and this.store after it *)

\* hasBeenPosted answering for every entry, whatever its age
globalHasBeenPostedForever(store, f, t) ==
  [result |-> f \in DOMAIN store.fingerprints, store |-> store]

\* hasBeenPosted that restarts the life of the entry it finds
globalHasBeenPostedSliding(store, f, t) ==
  IF f \notin DOMAIN store.fingerprints THEN [result |-> FALSE, store |-> store]
  ELSE IF PastTTL(store.fingerprints[f], t)
       THEN [result |-> FALSE,
             store |-> [store EXCEPT !.fingerprints = Without(@, {f})]]
       ELSE [result |-> TRUE,
             store |-> [store EXCEPT !.fingerprints[f].postedAt = t]]

globalHasBeenPosted(store, f, t) ==
  IF f \notin DOMAIN store.fingerprints THEN [result |-> FALSE, store |-> store]
  ELSE IF PastTTL(store.fingerprints[f], t)
       THEN [result |-> FALSE,
             store |-> [store EXCEPT !.fingerprints = Without(@, {f})]]
       ELSE [result |-> TRUE, store |-> store]

globalMarkAsPosted(store, f, c, t) ==
  [store EXCEPT !.fingerprints =
     [x \in DOMAIN @ \cup {f} |->
        IF x = f THEN [postedAt |-> t, channelId |-> c] ELSE @[x]]]

-----------------------------------------------------------------------------
(* The three loaders on a file that is not what they wrote.  A file is     *)
(* what JSON.parse makes of it: "garbage" (it throws), "null", or an       *)
(* "object" with some of the fields the store expects, each well-formed.   *)
(* A loaded store is the fields it has and whether they hold entries of    *)
(* the file.                                                               *)

Stores == {"dedupe", "posting", "global"}

Expected(s) ==
  CASE s = "dedupe" -> {"ids", "fingerprints"}
    [] s = "posting" -> {"version", "jobs", "metadata"}
    [] s = "global" -> {"version", "fingerprints"}

Contents(s) ==
  {[kind |-> "garbage", fields |-> {}], [kind |-> "null", fields |-> {}]}
    \cup {[kind |-> "object", fields |-> F] : F \in SUBSET Expected(s)}

EmptyOf(s) == [fields |-> Expected(s), from |-> "empty"]
AsIs(c) == [fields |-> c.fields, from |-> "file"]

\* deduplicator.js loadDedupeStore: new Maps, filled from the maps the file has
parseDedupeStore(c) ==
  IF c.kind # "object" \/ c.fields = {} THEN EmptyOf("dedupe")
  ELSE [fields |-> Expected("dedupe"), from |-> "file"]

\* loadPostedJobs lines 47-69
parsePostedJobs(c) ==
  IF c.kind # "object" THEN EmptyOf("posting")
  ELSE IF "version" \notin c.fields THEN EmptyOf("posting")
  ELSE IF "jobs" \notin c.fields THEN EmptyOf("posting")
  ELSE AsIs(c)

\* GlobalDedupeManager.loadStore lines 23-32: cleanup(json), return json
parseStore(c) ==
  IF c.kind # "object" THEN EmptyOf("global") ELSE AsIs(c)

parse(s, c) ==
  CASE s = "dedupe" -> parseDedupeStore(c)
    [] s = "posting" -> parsePostedJobs(c)
    [] s = "global" -> parseStore(c)

(* The operations of a store and the fields each one dereferences *)

Operations(s) ==
  IF s = "posting" THEN {"check", "mark", "number", "save"}
  ELSE {"check", "mark", "save"}

Needs(s, op) ==
  CASE s = "dedupe" -> {"ids", "fingerprints"}
    [] s = "posting" /\ op = "check" -> {"jobs"}
    [] s = "posting" /\ op = "mark" -> {"jobs", "metadata"}
    [] s = "posting" /\ op = "number" -> {"metadata"}
    [] s = "posting" /\ op = "save" -> {"jobs", "metadata"}
    [] s = "global" /\ op = "save" -> {}
    [] s = "global" /\ op # "save" -> {"fingerprints"}

\* The TypeError of a missing field: savePostedJobs catches it and exits
\* (lines 696-702), the other operations let it reach the caller
Outcome(s, op, loaded) ==
  IF Needs(s, op) \subseteq loaded.fields THEN "returns"
  ELSE IF s = "posting" /\ op = "save" THEN "exits"
  ELSE "throws"

-----------------------------------------------------------------------------
(* The state after construction: no ledger file, no archive, no process    *)
(* started.                                                                *)

NoSession == [c \in Channels |-> -1]
NoMerge == [disk |-> <<>>, memory |-> <<>>]

Init ==
  /\ now = 0
  /\ advances = 0
  /\ ops = 0
  /\ ledger = <<>>
  /\ tmpLedger = <<>>
  /\ archive = [m \in Months |-> <<>>]
  /\ pc = [p \in Procs |-> "init"]
  /\ data = [p \in Procs |-> createEmptyDatabase]
  /\ session = [p \in Procs |-> NoSession]
  /\ archCounts = [p \in Procs |-> NoChan]
  /\ activeJobs = [p \in Procs |-> <<>>]
  /\ queue = [p \in Procs |-> <<>>]
  /\ existing = [p \in Procs |-> <<>>]
  /\ issued = NoChan
  /\ since = [c \in Channels |-> {}]
  /\ recorded = {}
  /\ created = {}
  /\ mergeIn = [p \in Procs |-> NoMerge]
  /\ lastIssue = <<>>
  /\ check = <<>>
  /\ deployed = "none"
  /\ storeFile = <<>>
  /\ batch = <<>>
  /\ lastSeen = [j \in DedupeJobs |-> -1]
  /\ recordedAt = [j \in DedupeJobs |-> -1]
  /\ globalFile = <<>>
  /\ gstore = [p \in Procs |-> <<>>]
  /\ gcheck = <<>>
  /\ marks = [f \in Fingerprints |-> {}]
  /\ hits = [f \in Fingerprints |-> FALSE]
  /\ probe = <<>>
  /\ run = [p \in Procs |-> <<>>]
  /\ outbox = [p \in Procs |-> {}]
  /\ lastSend = <<>>
  /\ dsave = NoSave
  /\ fpcall = <<>>
  /\ scan = <<>>
  /\ fd = [p \in Procs |-> "none"]
  /\ torn = {}

files == <<ledger, tmpLedger, archive>>
memory == <<data, session, archCounts>>
locals == <<activeJobs, queue, existing>>
history == <<issued, since, recorded, created, mergeIn>>

Forget == lastIssue' = <<>> /\ check' = <<>>

InSave(p) == pc[p] \in {"reload", "archread", "archwrite", "write", "rename", "verify"}
Quiet == \A p \in Procs : ~InSave(p)
\* No run of the poster is under way
Idle == \A p \in Procs : pc[p] \in {"init", "dead"}

LedgerJobs == loadPostedJobs.jobs
LedgerChan == loadPostedJobs.chan
ArchivedJobs == UNION {Range(archive[m]) : m \in Months}

(* constructor: loadPostedJobs, then loadArchiveChannelCounts *)

Load(p) ==
  /\ pc[p] = "init"
  /\ pc' = [pc EXCEPT ![p] = "ready"]
  /\ data' = [data EXCEPT ![p] = loadPostedJobs]
  /\ session' = [session EXCEPT ![p] = NoSession]
  /\ archCounts' = [archCounts EXCEPT ![p] = loadArchiveChannelCounts]
  /\ since' = [c \in Channels |-> since[c] \cup {p}]
  /\ Forget
  /\ UNCHANGED <<now, advances, ops, files, locals, issued, recorded, created, mergeIn>>

(* The run of a process ends; a later run starts from the files again *)

Exit(p) ==
  /\ pc[p] = "ready"
  /\ pc' = [pc EXCEPT ![p] = "init"]
  /\ data' = [data EXCEPT ![p] = createEmptyDatabase]
  /\ session' = [session EXCEPT ![p] = NoSession]
  /\ archCounts' = [archCounts EXCEPT ![p] = NoChan]
  /\ mergeIn' = [mergeIn EXCEPT ![p] = NoMerge]
  /\ since' = [c \in Channels |-> since[c] \ {p}]
  /\ Forget
  /\ UNCHANGED <<now, advances, ops, files, locals, issued, recorded, created>>

(* The clock: a tick at any time, eight days only between save cycles *)

Advance(d) ==
  /\ advances < MaxAdvances
  /\ d = 1 \/ Quiet
  /\ now' = now + d
  /\ advances' = advances + 1
  /\ Forget
  /\ UNCHANGED <<ops, files, pc, memory, locals, history>>

\* Has archiving taken every instance that references c out of the active ledger?
ArchivedOut(c) ==
  /\ \E job \in ArchivedJobs : c \in DOMAIN job.discordPosts
  /\ \A job \in Range(LedgerJobs) : c \notin DOMAIN job.discordPosts

NoteIssue(p, c, n) ==
  /\ issued' = [issued EXCEPT ![c] = IF n > @ THEN n ELSE @]
  /\ since' = IF n > issued[c] THEN [since EXCEPT ![c] = {p}] ELSE since
  /\ lastIssue' = <<[p |-> p, c |-> c, n |-> n, highest |-> issued[c],
                     sameOrLater |-> p \in since[c],
                     archivedOut |-> ArchivedOut(c)]>>

(* discord-poster.js lines 476-487: getChannelJobNumber, the post, then    *)
(* markAsPostedToChannel with that number (which saves unless it skips)    *)

PosterDeliver(p, j, src, c) ==
  LET g == getChannelJobNumber(data[p], session[p], archCounts[p], c)
      r == markAsPostedToChannel(g.data, g.session, archCounts[p],
                                 generateJobId(j), src, c, g.n, now)
  IN /\ pc[p] = "ready"
     /\ ops' = ops + 1
     /\ data' = [data EXCEPT ![p] = r.data]
     /\ session' = [session EXCEPT ![p] = r.session]
     /\ pc' = [pc EXCEPT ![p] = IF r.ok THEN "reload" ELSE "ready"]
     /\ NoteIssue(p, c, g.n)
     /\ check' = <<>>
     /\ recorded' = IF r.ok THEN recorded \cup {<<r.id, c>>} ELSE recorded
     /\ created' = IF r.fresh
                   THEN created \cup {Instance(generateJobId(j), now, src, r.id[3])}
                   ELSE created
     /\ UNCHANGED <<now, advances, files, archCounts, locals, mergeIn>>

(* markAsPostedToChannel without a number: it calls getChannelJobNumber *)

MarkAsPostedToChannel(p, j, src, c) ==
  LET r == markAsPostedToChannel(data[p], session[p], archCounts[p],
                                 generateJobId(j), src, c, 0, now)
  IN /\ pc[p] = "ready"
     /\ ops' = ops + 1
     /\ data' = [data EXCEPT ![p] = r.data]
     /\ session' = [session EXCEPT ![p] = r.session]
     /\ pc' = [pc EXCEPT ![p] = IF r.ok THEN "reload" ELSE "ready"]
     /\ IF r.ok THEN NoteIssue(p, c, r.n)
        ELSE UNCHANGED <<issued, since>> /\ lastIssue' = <<>>
     /\ check' = <<>>
     /\ recorded' = IF r.ok THEN recorded \cup {<<r.id, c>>} ELSE recorded
     /\ created' = IF r.fresh
                   THEN created \cup {Instance(generateJobId(j), now, src, r.id[3])}
                   ELSE created
     /\ UNCHANGED <<now, advances, files, archCounts, locals, mergeIn>>

(* markAsPosted(jobId, jobData) under the URL-based id, then the save *)

MarkAsPosted(p, j, src) ==
  LET d == markAsPosted(data[p], UrlId(j), src, now)
  IN /\ pc[p] = "ready"
     /\ ops' = ops + 1
     /\ data' = [data EXCEPT ![p] = d]
     /\ pc' = [pc EXCEPT ![p] = "reload"]
     /\ created' = created \cup {d.jobs[Len(d.jobs)]}
     /\ Forget
     /\ UNCHANGED <<now, advances, files, session, archCounts, locals,
                    issued, since, recorded, mergeIn>>

(* savePostedJobs called on its own (discord-poster.js line 513) *)

Save(p) ==
  /\ pc[p] = "ready"
  /\ ops' = ops + 1
  /\ pc' = [pc EXCEPT ![p] = "reload"]
  /\ Forget
  /\ UNCHANGED <<now, advances, files, memory, locals, history>>

-----------------------------------------------------------------------------
(* savePostedJobs, one action per file operation.  The steps between two   *)
(* file operations touch only the process's own memory and go with the     *)
(* file operation before them.                                             *)

(* lines 599-666 and 497-531: snapshot, reload, merge, and archiveOldJobs' *)
(* partition of the merged jobs                                            *)

Reload(p) ==
  LET merged == MergedJobs(LedgerJobs, data[p].jobs)
      toArchive == JobsToArchive(merged, now)
  IN /\ pc[p] = "reload"
     /\ data' = [data EXCEPT ![p].jobs = merged]
     /\ mergeIn' = [mergeIn EXCEPT ![p] = [disk |-> LedgerJobs, memory |-> data[p].jobs]]
     /\ IF toArchive = <<>>
        THEN /\ pc' = [pc EXCEPT ![p] = "write"]
             /\ UNCHANGED <<activeJobs, queue>>
        ELSE /\ pc' = [pc EXCEPT ![p] = "archread"]
             /\ activeJobs' = [activeJobs EXCEPT ![p] = StillActive(merged, now)]
             /\ queue' = [queue EXCEPT ![p] = JobsByMonth(toArchive)]
     /\ Forget
     /\ UNCHANGED <<now, advances, ops, files, session, archCounts, existing,
                    issued, since, recorded, created>>

(* lines 536-548: read the month's archive file *)

ArchRead(p) ==
  /\ pc[p] = "archread"
  /\ existing' = [existing EXCEPT ![p] = archive[queue[p][1].month]]
  /\ pc' = [pc EXCEPT ![p] = "archwrite"]
  /\ Forget
  /\ UNCHANGED <<now, advances, ops, files, memory, activeJobs, queue, history>>

(* lines 550-574: write the merged archive and rename it into place; after *)
(* the last month, this.data.jobs = activeJobs                             *)

ArchWrite(p) ==
  LET entry == queue[p][1]
      last == Len(queue[p]) = 1
  IN /\ pc[p] = "archwrite"
     /\ archive' = [archive EXCEPT ![entry.month] = MergedArchive(existing[p], entry.jobs)]
     /\ queue' = [queue EXCEPT ![p] = Tail(@)]
     /\ existing' = [existing EXCEPT ![p] = <<>>]
     /\ pc' = [pc EXCEPT ![p] = IF last THEN "write" ELSE "archread"]
     /\ data' = IF last THEN [data EXCEPT ![p].jobs = activeJobs[p]] ELSE data
     /\ activeJobs' = IF last THEN [activeJobs EXCEPT ![p] = <<>>] ELSE activeJobs
     /\ Forget
     /\ UNCHANGED <<now, advances, ops, ledger, tmpLedger, session, archCounts, history>>

(* lines 677-683: open the temp file for writing, write this.data, close *)

WriteTmp(p) ==
  /\ pc[p] = "write"
  /\ tmpLedger' = <<data[p]>>
  /\ pc' = [pc EXCEPT ![p] = "rename"]
  /\ Forget
  /\ UNCHANGED <<now, advances, ops, ledger, archive, memory, locals, history>>

(* line 679: openSync(tempPath, 'w') creates the temp file or empties the  *)
(* one that is there; the processes that hold it open keep the same file   *)

OpenTmp(p) ==
  /\ pc[p] = "write"
  /\ tmpLedger' = <<createEmptyDatabase>>
  /\ torn' = {x \in torn : x[1] # "tmp"} \cup {<<"tmp", "empty">>}
  /\ fd' = [fd EXCEPT ![p] = "tmp"]
  /\ pc' = [pc EXCEPT ![p] = "writing"]
  /\ Forget
  /\ UNCHANGED <<now, advances, ops, ledger, archive, memory, locals, history>>

\* What a file holds after document d is written at its start: d alone on an
\* empty file or over a shorter document, the end of the longer document
\* after d otherwise; documents of as many jobs may be of either length
Overwritten(f, file, d) ==
  IF <<f, "empty">> \in torn THEN {"whole"}
  ELSE IF Torn(f) THEN {"mixed"}
  ELSE IF file[1] = d \/ Len(d.jobs) > Len(file[1].jobs) THEN {"whole"}
  ELSE IF Len(d.jobs) < Len(file[1].jobs) THEN {"mixed"}
  ELSE {"whole", "mixed"}

TornAfter(f, k) ==
  {x \in torn : x[1] # f} \cup (IF k = "whole" THEN {} ELSE {<<f, k>>})

(* line 680: writeSync on the open file, which is still the temp file, or  *)
(* the ledger since another process renamed it, or a file no path leads to *)
(* any more                                                                *)

WriteSync(p) ==
  CASE fd[p] = "tmp" ->
         /\ \E k \in Overwritten("tmp", tmpLedger, data[p]) :
               torn' = TornAfter("tmp", k)
         /\ tmpLedger' = <<data[p]>>
         /\ UNCHANGED ledger
    [] fd[p] = "ledger" ->
         /\ \E k \in Overwritten("ledger", ledger, data[p]) :
               torn' = TornAfter("ledger", k)
         /\ ledger' = <<data[p]>>
         /\ UNCHANGED tmpLedger
    [] OTHER -> UNCHANGED <<ledger, tmpLedger, torn>>

(* lines 680-682: writeSync, fsyncSync, closeSync on the open file *)

WriteOpen(p) ==
  /\ pc[p] = "writing"
  /\ WriteSync(p)
  /\ fd' = [fd EXCEPT ![p] = "none"]
  /\ pc' = [pc EXCEPT ![p] = "rename"]
  /\ Forget
  /\ UNCHANGED <<now, advances, ops, archive, memory, locals, history>>

(* lines 680-681 and 696-702: writeSync throws before it has written, or   *)
(* fsyncSync throws after writeSync has written; the catch exits           *)

WriteOpenFails(p) ==
  /\ pc[p] = "writing"
  /\ WriteSync(p) \/ UNCHANGED <<ledger, tmpLedger, torn>>
  /\ fd' = [fd EXCEPT ![p] = "none"]
  /\ pc' = [pc EXCEPT ![p] = "dead"]
  /\ Forget
  /\ UNCHANGED <<now, advances, ops, archive, memory, locals, history>>

(* line 685: rename the temp file over the ledger, whatever it holds; the  *)
(* processes that hold the temp file open now hold the ledger open.        *)
(* Without a temp file the rename throws and the process exits (line 702)  *)

Rename(p) ==
  /\ pc[p] = "rename"
  /\ IF tmpLedger = <<>>
     THEN /\ pc' = [pc EXCEPT ![p] = "dead"]
          /\ UNCHANGED <<ledger, tmpLedger, tempfile>>
     ELSE /\ ledger' = tmpLedger
          /\ tmpLedger' = <<>>
          /\ torn' = {<<"ledger", x[2]>> : x \in {y \in torn : y[1] = "tmp"}}
          /\ fd' = [q \in Procs |->
                      CASE fd[q] = "tmp" -> "ledger"
                        [] fd[q] = "ledger" -> "gone"
                        [] OTHER -> fd[q]]
          /\ pc' = [pc EXCEPT ![p] = "verify"]
  /\ Forget
  /\ UNCHANGED <<now, advances, ops, archive, memory, locals, history>>

(* lines 550-566 and 677-683: opening or writing the archive or the temp   *)
(* file throws; the catch of savePostedJobs (lines 696-702) exits          *)

WriteFails(p) ==
  /\ pc[p] \in {"archwrite", "write"}
  /\ pc' = [pc EXCEPT ![p] = "dead"]
  /\ Forget
  /\ UNCHANGED <<now, advances, ops, files, memory, locals, history>>

(* lines 688-704: read the ledger back and compare the number of jobs; the *)
(* call returns, or the process exits on a mismatch                        *)

\* Verify returning whatever it reads back
VerifyLax(p) ==
  /\ pc[p] = "verify"
  /\ pc' = [pc EXCEPT ![p] = "ready"]
  /\ Forget
  /\ UNCHANGED <<now, advances, ops, files, memory, locals, history>>


Verify(p) ==
  /\ pc[p] = "verify"
  /\ pc' = [pc EXCEPT ![p] =
              IF Torn("ledger") \/ Len(LedgerJobs) # Len(data[p].jobs)
              THEN "dead" ELSE "ready"]
  /\ Forget
  /\ UNCHANGED <<now, advances, ops, files, memory, locals, history>>

(* The process is killed inside savePostedJobs: the files stay as they are *)

Crash(p) ==
  /\ pc[p] \in {"reload", "write", "writing", "rename", "verify"}
  /\ pc' = [pc EXCEPT ![p] = "dead"]
  /\ fd' = [fd EXCEPT ![p] = "none"]
  /\ Forget
  /\ UNCHANGED <<now, advances, ops, files, memory, locals, history, torn>>

(* hasBeenPosted(jobId, jobData) on the process's database *)

JobData(j, t) ==
  {<<>>} \cup {<<[hash |-> generateJobId(j), src |-> src]>> : src \in SourceDates(t)}

HasBeenPosted(p, j, jobData) ==
  /\ pc[p] = "ready"
  /\ check' = <<[p |-> p, jobId |-> UrlId(j), jobData |-> jobData, at |-> now,
                 instances |-> Lookup(data[p].jobs, UrlId(j), jobData),
                 result |-> hasBeenPosted(data[p].jobs, UrlId(j), jobData, now)]>>
  /\ lastIssue' = <<>>
  /\ UNCHANGED <<now, advances, ops, files, pc, memory, locals, history>>

-----------------------------------------------------------------------------
(* Spec: two runs of the poster on the same files, their file operations   *)
(* interleaved in any order.                                               *)

Next ==
  /\ UNCHANGED <<dedupe, global, probe, poster, tempfile, scan>>
  /\ \/ \E d \in Deltas : Advance(d)
     \/ \E p \in Procs : Load(p)
     \/ \E p \in Procs, j \in Jobs, c \in Channels :
          ops < MaxOps /\ PosterDeliver(p, j, <<>>, c)
     \/ \E p \in Procs, j \in Jobs, c \in Channels :
          ops < MaxOps /\ MarkAsPostedToChannel(p, j, <<>>, c)
     \/ \E p \in Procs : ops < MaxOps /\ Save(p)
     \/ \E p \in Procs : Reload(p)
     \/ \E p \in Procs : ArchRead(p)
     \/ \E p \in Procs : ArchWrite(p)
     \/ \E p \in Procs : WriteTmp(p)
     \/ \E p \in Procs : Rename(p)
     \/ \E p \in Procs : Verify(p)

Spec == Init /\ [][Next]_vars

(* SpecRuns: runs that overlap and runs that start after earlier ones     *)
(* have ended; no call starts while another process is inside a save.      *)

NextRuns ==
  /\ UNCHANGED <<dedupe, global, probe, poster, tempfile, scan>>
  /\ \/ Idle /\ Advance(Days(8))
     \/ \E p \in Procs : Quiet /\ Load(p)
     \/ \E p \in Procs : Quiet /\ Exit(p)
     \/ \E p \in Procs, j \in Jobs :
          Quiet /\ ops < MaxRunCalls /\ PosterDeliver(p, j, <<>>, "c1")
     \/ \E p \in Procs : Quiet /\ ops < MaxRunCalls /\ Save(p)
     \/ \E p \in Procs : Reload(p)
     \/ \E p \in Procs : ArchRead(p)
     \/ \E p \in Procs : ArchWrite(p)
     \/ \E p \in Procs : WriteTmp(p)
     \/ \E p \in Procs : Rename(p)
     \/ \E p \in Procs : Verify(p)

SpecRuns == Init /\ [][NextRuns]_vars

(* SpecDecide: one process that records deliveries, saves and asks         *)
(* hasBeenPosted, for jobs with and without a source date.                 *)

NextDecide ==
  /\ UNCHANGED <<dedupe, global, probe, poster, tempfile, scan>>
  /\ \/ \E d \in Deltas : (d = 1 \/ Idle) /\ Advance(d)
     \/ Load("p1")
     \/ Exit("p1")
     \/ \E j \in Jobs, src \in SourceDates(now) :
          ops < MaxCalls /\ MarkAsPostedToChannel("p1", j, src, "c1")
     \/ \E j \in Jobs, src \in SourceDates(now) :
          ops < MaxCalls /\ MarkAsPosted("p1", j, src)
     \/ ops < MaxCalls /\ Save("p1")
     \/ \E j \in Jobs : \E jobData \in JobData(j, now) : HasBeenPosted("p1", j, jobData)
     \/ Reload("p1")
     \/ ArchRead("p1")
     \/ ArchWrite("p1")
     \/ WriteTmp("p1")
     \/ Rename("p1")
     \/ Verify("p1")

SpecDecide == Init /\ [][NextDecide]_vars

(* SpecFail: two runs on channel c1 whose saves interleave and whose       *)
(* writes may fail.                                                        *)

NextFail ==
  /\ UNCHANGED <<dedupe, global, probe, poster, tempfile, scan>>
  /\ \/ \E d \in Deltas : Advance(d)
     \/ \E p \in Procs : Load(p)
     \/ \E p \in Procs, j \in Jobs : ops < MaxOps /\ PosterDeliver(p, j, <<>>, "c1")
     \/ \E p \in Procs : ops < MaxOps /\ Save(p)
     \/ \E p \in Procs : Reload(p)
     \/ \E p \in Procs : ArchRead(p)
     \/ \E p \in Procs : ArchWrite(p)
     \/ \E p \in Procs : WriteTmp(p)
     \/ \E p \in Procs : WriteFails(p)
     \/ \E p \in Procs : Rename(p)
     \/ \E p \in Procs : Verify(p)

SpecFail == Init /\ [][NextFail]_vars

(* deduplicateJobs(jobs): load, clean up, the loop, saveDedupeStore *)

Deduplicate(v, jobs) ==
  \E r \in {deduplicateJobs(v, loadDedupeStore, jobs, now)} :
     /\ deployed \in {"none", v}
     /\ deployed' = v
     /\ storeFile' = <<r.stores[Len(r.stores)]>>
     /\ batch' = <<[version |-> v, jobs |-> jobs, at |-> now,
                    before |-> loadDedupeStore, stores |-> r.stores,
                    unique |-> r.unique, classes |-> r.classes,
                    lastSeen |-> lastSeen, recordedAt |-> recordedAt]>>
     /\ lastSeen' = [j \in DedupeJobs |->
                       IF j \in Range(jobs) THEN now ELSE lastSeen[j]]
     /\ recordedAt' = [j \in DedupeJobs |->
                         IF \E i \in DOMAIN jobs : jobs[i] = j /\ r.classes[i] = "NetNew"
                         THEN now ELSE recordedAt[j]]
     /\ UNCHANGED <<now, advances, ops, posting, global, probe, poster, tempfile, scan,
                    dsave, fpcall>>

(* Time passes between one batch and the next *)

Wait(d) ==
  /\ batch # <<>>
  /\ Advance(d)
  /\ batch' = <<>>
  /\ UNCHANGED <<deployed, storeFile, lastSeen, recordedAt, dsave, fpcall, global, probe, poster,
                 tempfile, scan>>

(* SpecDedupe: batches of the aggregator, one after the other *)

NextDedupe ==
  \/ \E v \in Versions : \E d \in DedupeDeltas(v) : deployed = v /\ Wait(d)
  \/ \E v \in Versions, jobs \in Batches : Deduplicate(v, jobs)

SpecDedupe == Init /\ [][NextDedupe]_vars

-----------------------------------------------------------------------------
(* SpecFingerprint: the fingerprints of two jobs, by either implementation *)

GenerateFingerprint(a, b) ==
  /\ fpcall' = <<[impl |-> "deduplicator", shape |-> "plain", a |-> a, b |-> b,
                  fa |-> generateFingerprint(a), fb |-> generateFingerprint(b),
                  again |-> generateFingerprint(a)]>>

HelpersGenerateFingerprint(a, b, shape) ==
  /\ fpcall' = <<[impl |-> "helpers", shape |-> shape, a |-> a, b |-> b,
                  fa |-> helpersGenerateFingerprint(Raw(a, shape)),
                  fb |-> helpersGenerateFingerprint(Raw(b, "plain")),
                  again |-> helpersGenerateFingerprint(Raw(a, shape))]>>

NextFingerprint ==
  /\ UNCHANGED <<now, advances, ops, deployed, storeFile, batch, lastSeen, recordedAt,
                 dsave, posting, global, probe, poster, tempfile, scan>>
  /\ fpcall = <<>>
  /\ \/ \E a, b \in NormalizedJobs : GenerateFingerprint(a, b)
     \/ \E a, b \in NormalizedJobs, shape \in Shapes :
          HelpersGenerateFingerprint(a, b, shape)

SpecFingerprint == Init /\ [][NextFingerprint]_vars

-----------------------------------------------------------------------------
(* saveDedupeStore (lines 81-103, 556-578) step by step: the batch hands   *)
(* its store to the save, writeFileSync fills the temp file, renameSync    *)
(* puts it in place.  Nothing flushes the temp file, so the kernel writes  *)
(* its data to the disk some time after the rename.                        *)

SaveBegin(v, jobs) ==
  \E r \in {deduplicateJobs(v, loadDedupeStore, jobs, now)} :
     /\ dsave.step = "idle"
     /\ deployed \in {"none", v}
     /\ deployed' = v
     /\ dsave' = [dsave EXCEPT !.step = "write",
                                !.next = <<r.stores[Len(r.stores)]>>,
                                !.before = IF dsave.torn THEN <<>> ELSE storeFile]
     /\ UNCHANGED storeFile

\* line 98 (573): writeFileSync(tempPath, ...)
StoreWriteTmp ==
  /\ dsave.step = "write"
  /\ dsave' = [dsave EXCEPT !.step = "rename", !.tmp = "whole"]
  /\ UNCHANGED <<deployed, storeFile>>

\* line 99 (574): renameSync(tempPath, DEDUPE_STORE_FILE)
StoreRename ==
  /\ dsave.step = "rename"
  /\ storeFile' = dsave.next
  /\ dsave' = [dsave EXCEPT !.step = "renamed", !.tmp = "none", !.flushed = FALSE,
                             !.torn = FALSE]
  /\ UNCHANGED deployed

\* lines 100-103 (575-578): saveDedupeStore returns
StoreReturn ==
  /\ dsave.step = "renamed"
  /\ dsave' = [dsave EXCEPT !.step = "idle"]
  /\ UNCHANGED <<deployed, storeFile>>

\* The process is killed inside the save, during the write or before or after
\* the rename: the temp file stays as far as it was written
StoreKill ==
  /\ dsave.step \in {"write", "rename", "renamed"}
  /\ dsave' = [dsave EXCEPT !.step = "down",
                             !.tmp = IF dsave.step = "write" THEN "part" ELSE @]
  /\ UNCHANGED <<deployed, storeFile>>

\* The kernel writes the data of the renamed file to the disk
StoreWriteback ==
  /\ ~dsave.flushed
  /\ dsave' = [dsave EXCEPT !.flushed = TRUE]
  /\ UNCHANGED <<deployed, storeFile>>

\* The machine goes down inside the save, after the rename, while the data of
\* the renamed file is not on the disk: the disk holds the new name with all,
\* or with only a part, of the data
StoreMachineDown ==
  /\ dsave.step = "renamed"
  /\ ~dsave.flushed
  /\ \E cut \in BOOLEAN :
       dsave' = [dsave EXCEPT !.step = "down", !.flushed = TRUE, !.torn = cut]
  /\ UNCHANGED <<deployed, storeFile>>

\* The next run of the aggregator
StoreRestart ==
  /\ dsave.step = "down"
  /\ dsave' = [dsave EXCEPT !.step = "idle"]
  /\ UNCHANGED <<deployed, storeFile>>

NextStore ==
  /\ UNCHANGED <<now, advances, ops, batch, lastSeen, recordedAt, fpcall, posting, global, probe,
                 poster, tempfile, scan>>
  /\ \/ \E v \in Versions, jobs \in Batches : SaveBegin(v, jobs)
     \/ StoreWriteTmp
     \/ StoreRename
     \/ StoreReturn
     \/ StoreKill
     \/ StoreWriteback
     \/ StoreMachineDown
     \/ StoreRestart

SpecStore == Init /\ [][NextStore]_vars

-----------------------------------------------------------------------------
(* The global delivery ledger of one consumer after another *)

(* constructor (lines 15-17): this.store = this.loadStore() *)

GlobalLoad(p) ==
  /\ gstore[p] = <<>>
  /\ gstore' = [gstore EXCEPT ![p] = <<loadStore(now)>>]
  /\ gcheck' = <<>>
  /\ UNCHANGED <<globalFile, marks, hits>>

GlobalHasBeenPosted(p, f) ==
  /\ gstore[p] # <<>>
  /\ \E r \in {globalHasBeenPosted(gstore[p][1], f, now)} :
     /\ gstore' = [gstore EXCEPT ![p] = <<r.store>>]
     /\ gcheck' = <<[p |-> p, fingerprint |-> f, at |-> now,
                     before |-> gstore[p][1], after |-> r.store,
                     marks |-> marks[f], hits |-> hits[f],
                     result |-> r.result]>>
     /\ hits' = [hits EXCEPT ![f] = @ \/ r.result]
     /\ UNCHANGED <<globalFile, marks>>

GlobalMarkAsPosted(p, f, c) ==
  /\ gstore[p] # <<>>
  /\ gstore' = [gstore EXCEPT ![p] = <<globalMarkAsPosted(gstore[p][1], f, c, now)>>]
  /\ marks' = [marks EXCEPT ![f] = @ \cup {now}]
  /\ gcheck' = <<>>
  /\ UNCHANGED <<globalFile, hits>>

(* saveStore (lines 45-53) *)

GlobalSaveStore(p) ==
  /\ gstore[p] # <<>>
  /\ globalFile' = gstore[p]
  /\ gcheck' = <<>>
  /\ UNCHANGED <<gstore, marks, hits>>

\* The run of the consumer ends
GlobalExit(p) ==
  /\ gstore[p] # <<>>
  /\ gstore' = [gstore EXCEPT ![p] = <<>>]
  /\ gcheck' = <<>>
  /\ UNCHANGED <<globalFile, marks, hits>>

\* Time passes: a tick, or 13, 14 or 15 days
GlobalDeltas == {1, Days(TTL_DAYS - 1), Days(TTL_DAYS), Days(TTL_DAYS + 1)}

GlobalWait(d) ==
  /\ Advance(d)
  /\ gcheck' = <<>>
  /\ UNCHANGED <<globalFile, gstore, marks, hits>>

(* SpecGlobal: one consumer after another loads the ledger, checks, marks, *)
(* saves and ends, with time passing in between.                           *)

NextGlobal ==
  \/ \E d \in GlobalDeltas : GlobalWait(d) /\ UNCHANGED <<dedupe, probe, poster, tempfile, scan>>
  \/ GlobalLoad("p1") /\ UNCHANGED <<now, advances, ops, posting, dedupe, probe, poster, tempfile, scan>>
  \/ \E f \in Fingerprints :
       GlobalHasBeenPosted("p1", f) /\ UNCHANGED <<now, advances, ops, posting, dedupe, probe, poster, tempfile, scan>>
  \/ \E f \in Fingerprints :
       /\ ops < MaxOps
       /\ ops' = ops + 1
       /\ GlobalMarkAsPosted("p1", f, "c1")
       /\ UNCHANGED <<now, advances, posting, dedupe, probe, poster, tempfile, scan>>
  \/ GlobalSaveStore("p1") /\ UNCHANGED <<now, advances, ops, posting, dedupe, probe, poster, tempfile, scan>>
  \/ GlobalExit("p1") /\ UNCHANGED <<now, advances, ops, posting, dedupe, probe, poster, tempfile, scan>>

SpecGlobal == Init /\ [][NextGlobal]_vars

(* SpecConsumers: two consumers on the one ledger file, each loading,      *)
(* checking, marking and saving in any order, a tick of the clock at a     *)
(* time.                                                                   *)

NextConsumers ==
  \/ GlobalWait(1) /\ UNCHANGED <<dedupe, probe, poster, tempfile, scan>>
  \/ \E p \in Procs :
       GlobalLoad(p) /\ UNCHANGED <<now, advances, ops, posting, dedupe, probe, poster, tempfile, scan>>
  \/ \E p \in Procs, f \in Fingerprints :
       GlobalHasBeenPosted(p, f) /\ UNCHANGED <<now, advances, ops, posting, dedupe, probe, poster, tempfile, scan>>
  \/ \E p \in Procs, f \in Fingerprints :
       /\ ops < MaxOps
       /\ ops' = ops + 1
       /\ GlobalMarkAsPosted(p, f, "c1")
       /\ UNCHANGED <<now, advances, posting, dedupe, probe, poster, tempfile, scan>>
  \/ \E p \in Procs :
       GlobalSaveStore(p) /\ UNCHANGED <<now, advances, ops, posting, dedupe, probe, poster, tempfile, scan>>
  \/ \E p \in Procs :
       GlobalExit(p) /\ UNCHANGED <<now, advances, ops, posting, dedupe, probe, poster, tempfile, scan>>

SpecConsumers == Init /\ [][NextConsumers]_vars

-----------------------------------------------------------------------------
(* A manager started on a damaged file, and the calls made on it *)

FindFile(s, c) ==
  /\ probe = <<>>
  /\ probe' = <<[store |-> s, file |-> c, loaded |-> <<>>, outcomes |-> <<>>]>>

LoadFile ==
  /\ probe # <<>>
  /\ probe[1].loaded = <<>>
  /\ probe' = <<[probe[1] EXCEPT !.loaded = <<parse(probe[1].store, probe[1].file)>>]>>

Exited(pr) == \E op \in DOMAIN pr.outcomes : pr.outcomes[op] = "exits"

Call(op) ==
  /\ probe # <<>>
  /\ probe[1].loaded # <<>>
  /\ op \in Operations(probe[1].store) \ DOMAIN probe[1].outcomes
  /\ ~Exited(probe[1])
  /\ probe' = <<[probe[1] EXCEPT !.outcomes =
                   [x \in DOMAIN @ \cup {op} |->
                      IF x = op THEN Outcome(probe[1].store, op, probe[1].loaded[1])
                      ELSE @[x]]]>>

NextLoad ==
  /\ UNCHANGED <<now, advances, ops, posting, dedupe, global, poster, tempfile, scan>>
  /\ \/ \E s \in Stores : \E c \in Contents(s) : FindFile(s, c)
     \/ LoadFile
     \/ \E op \in {"check", "mark", "number", "save"} : Call(op)

SpecLoad == Init /\ [][NextLoad]_vars

-----------------------------------------------------------------------------
(* discord-poster.js main: the managers, the posting loop, the final saves *)

generateMinimalJobFingerprint(j) == IF Content(j) = "k1" THEN "g1" ELSE "g2"

\* channelsToPost (lines 434-456): the industry channel, or that and the
\* location channel
Routes == {<<"c1">>, <<"c1", "c2">>}

(* lines 344-345: new PostedJobsManager(), new GlobalDedupeManager() *)

PosterStart(p) ==
  /\ Load(p)
  /\ GlobalLoad(p)
  /\ outbox' = [outbox EXCEPT ![p] = {}]
  /\ lastSend' = <<>>
  /\ UNCHANGED <<run, dedupe, probe>>

(* lines 419-456: the global check with the fingerprint, the posting       *)
(* ledger check called with the job itself and no jobData, the routing     *)

PosterCheck(p, j, route) ==
  /\ pc[p] = "ready"
  /\ run[p] = <<>>
  /\ \E g \in {globalHasBeenPosted(gstore[p][1], generateMinimalJobFingerprint(j), now)} :
     \E local \in {hasBeenPosted(data[p].jobs, j, <<>>, now)} :
       /\ gstore' = [gstore EXCEPT ![p] = <<g.store>>]
       /\ run' = IF g.result \/ local THEN run
                 ELSE [run EXCEPT ![p] =
                         <<[stage |-> "send", job |-> j, todo |-> route,
                            allowed |-> [global |-> ~g.result, posting |-> ~local],
                            active |-> \E i \in Range(data[p].jobs) :
                                         i.jobId = generateJobId(j) /\ IsActive(i, now),
                            unexpired |-> g.result]>>]
  /\ gcheck' = <<>>
  /\ lastSend' = <<>>
  /\ Forget
  /\ UNCHANGED <<now, advances, ops, files, pc, memory, locals, history,
                 globalFile, marks, hits, outbox, dedupe, probe>>

\* Is the delivery of job j to channel c in the jobs of this.data?
Delivered(jobs, j, c) ==
  \E i \in Range(jobs) : i.jobId = generateJobId(j) /\ c \in DOMAIN i.discordPosts

(* lines 476-487: the job number, postJobToDiscord, markAsPostedToChannel *)

PosterSend(p) ==
  /\ run[p] # <<>>
  /\ run[p][1].stage = "send"
  /\ PosterDeliver(p, run[p][1].job, <<>>, Head(run[p][1].todo))
  /\ run' = [run EXCEPT ![p] = <<[@[1] EXCEPT !.stage = "mark"]>>]
  /\ outbox' = [outbox EXCEPT ![p] = @ \cup {<<run[p][1].job, Head(run[p][1].todo)>>}]
  /\ lastSend' = <<[p |-> p, job |-> run[p][1].job, c |-> Head(run[p][1].todo),
                    at |-> now, allowed |-> run[p][1].allowed,
                    active |-> run[p][1].active, unexpired |-> run[p][1].unexpired,
                    earlier |-> outbox[p],
                    inLedger |-> {s \in outbox[p] : Delivered(data[p].jobs, s[1], s[2])},
                    inGlobal |-> {s \in outbox[p] :
                                    generateMinimalJobFingerprint(s[1])
                                      \in DOMAIN gstore[p][1].fingerprints}]>>
  /\ UNCHANGED <<dedupe, global, probe>>

(* lines 489-497: globalDedupeManager.markAsPosted, then the next channel *)

PosterMarkGlobal(p) ==
  /\ pc[p] = "ready"
  /\ run[p] # <<>>
  /\ run[p][1].stage = "mark"
  /\ GlobalMarkAsPosted(p, generateMinimalJobFingerprint(run[p][1].job),
                        Head(run[p][1].todo))
  /\ run' = [run EXCEPT ![p] =
               IF Tail(@[1].todo) = <<>> THEN <<>>
               ELSE <<[@[1] EXCEPT !.stage = "send", !.todo = Tail(@)]>>]
  /\ lastSend' = <<>>
  /\ Forget
  /\ UNCHANGED <<now, advances, ops, files, pc, memory, locals, history,
                 outbox, dedupe, probe>>

(* line 513: postedJobsManager.savePostedJobs() *)

PosterFinish(p) ==
  /\ run[p] = <<>>
  /\ Save(p)
  /\ run' = [run EXCEPT ![p] = <<[stage |-> "finish"]>>]
  /\ lastSend' = <<>>
  /\ UNCHANGED <<outbox, dedupe, global, probe>>

(* lines 514-520: globalDedupeManager.saveStore(), and the run ends *)

PosterEnd(p) ==
  /\ run[p] # <<>>
  /\ run[p][1].stage = "finish"
  /\ Exit(p)
  /\ globalFile' = gstore[p]
  /\ gstore' = [gstore EXCEPT ![p] = <<>>]
  /\ gcheck' = <<>>
  /\ run' = [run EXCEPT ![p] = <<>>]
  /\ lastSend' = <<>>
  /\ UNCHANGED <<marks, hits, outbox, dedupe, probe>>

(* SpecPoster: runs of the poster that may overlap; no call starts while   *)
(* another run is inside a save, and days pass only between runs.          *)

NextPoster ==
  /\ UNCHANGED <<tempfile, scan>>
  /\ \/ Idle /\ Advance(Days(8)) /\ lastSend' = <<>>
             /\ UNCHANGED <<run, outbox, dedupe, global, probe>>
     \/ \E p \in Procs : Quiet /\ PosterStart(p)
     \/ \E p \in Procs, j \in Jobs, route \in Routes : Quiet /\ PosterCheck(p, j, route)
     \/ \E p \in Procs : Quiet /\ ops < MaxRunCalls /\ PosterSend(p)
     \/ \E p \in Procs : Quiet /\ PosterMarkGlobal(p)
     \/ \E p \in Procs : Quiet /\ ops < MaxRunCalls /\ PosterFinish(p)
     \/ \E p \in Procs : Quiet /\ PosterEnd(p)
     \/ /\ lastSend' = <<>>
        /\ UNCHANGED <<run, outbox, dedupe, global, probe>>
        /\ \/ \E p \in Procs : Reload(p)
           \/ \E p \in Procs : ArchRead(p)
           \/ \E p \in Procs : ArchWrite(p)
           \/ \E p \in Procs : WriteTmp(p)
           \/ \E p \in Procs : Rename(p)
           \/ \E p \in Procs : Verify(p)

SpecPoster == Init /\ [][NextPoster]_vars

-----------------------------------------------------------------------------
(* SpecAges: one process that records deliveries, saves and asks           *)
(* hasBeenPosted, with runs exactly the active window or exactly three     *)
(* months apart.                                                           *)

AgeDeltas == {1, Days(ActiveWindowDays), Days(ReopenMonths * MonthDays)}

NextAges ==
  /\ UNCHANGED <<dedupe, global, probe, poster, tempfile, scan>>
  /\ \/ \E d \in AgeDeltas : (d = 1 \/ Idle) /\ Advance(d)
     \/ Load("p1")
     \/ Exit("p1")
     \/ \E j \in Jobs, src \in SourceDates(now) :
          ops < MaxCalls /\ MarkAsPostedToChannel("p1", j, src, "c1")
     \/ ops < MaxCalls /\ Save("p1")
     \/ \E j \in Jobs : \E jobData \in JobData(j, now) : HasBeenPosted("p1", j, jobData)
     \/ Reload("p1")
     \/ ArchRead("p1")
     \/ ArchWrite("p1")
     \/ WriteTmp("p1")
     \/ Rename("p1")
     \/ Verify("p1")

SpecAges == Init /\ [][NextAges]_vars

-----------------------------------------------------------------------------
(* Claims *)

Stored == Range(LedgerJobs) \cup ArchivedJobs
ChannelsOf(job) == DOMAIN job.discordPosts
ChanOf(file) == IF file = <<>> THEN NoChan ELSE file[1].chan
JobsOf(file) == IF file = <<>> THEN <<>> ELSE file[1].jobs

\* C1: once both processes have finished their saves without aborting,
\* every instance either of them created and every channel delivery either
\* of them recorded is in the persisted ledger or in an archive file.
C1_SavesKeepEverything ==
  (\A p \in Procs : pc[p] = "ready") =>
    /\ \A i \in created : \E x \in Stored : x.id = i.id
    /\ \A r \in recorded : \E x \in Stored : x.id = r[1] /\ r[2] \in ChannelsOf(x)

\* The copies of one instance that the merge of process p found on disk and
\* in memory with equal postedAt, each holding a delivery the other lacks.
DeepMergeCases(p) ==
  {dm \in Range(mergeIn[p].disk) \X Range(mergeIn[p].memory) :
     /\ dm[1].id = dm[2].id
     /\ dm[1].postedToDiscord = dm[2].postedToDiscord
     /\ ChannelsOf(dm[1]) \ ChannelsOf(dm[2]) # {}
     /\ ChannelsOf(dm[2]) \ ChannelsOf(dm[1]) # {}}

HoldsBoth(jobs, dm) ==
  \E x \in jobs :
    x.id = dm[1].id /\ ChannelsOf(dm[1]) \cup ChannelsOf(dm[2]) \subseteq ChannelsOf(x)

\* C2: when the disk copy and the memory copy of an instance have the same
\* id and equal postedAt and each holds a delivery for a different channel,
\* the instance in the ledger file this save writes (or in the archive, if
\* the save archived it) holds both channel deliveries.
C2_MergeUnion ==
  [][\A p \in Procs :
       pc[p] = "write" /\ pc'[p] = "rename" =>
         \A dm \in DeepMergeCases(p) :
           HoldsBoth(Range(JobsOf(tmpLedger')) \cup ArchivedJobs', dm)]_vars

C2_Witness ==
  \E p \in Procs :
    /\ pc[p] = "rename"
    /\ \E dm \in DeepMergeCases(p) : HoldsBoth(Range(JobsOf(tmpLedger)), dm)

\* C3: whatever the order of the postedAt values of the disk copy and the
\* memory copy of an instance, the merged instance holds every channel
\* delivery of either copy.
C3_MergeNeverDrops ==
  [][\A p \in Procs :
       pc[p] = "reload" /\ pc'[p] # "reload" =>
         \A d \in Range(LedgerJobs), m \in Range(data[p].jobs) :
           d.id = m.id => HoldsBoth(Range(data'[p].jobs), <<d, m>>)]_vars

\* C4: the channel job number persisted in the ledger metadata never
\* decreases, for any channel.
C4_HighWaterMarkNeverDecreases ==
  [][\A c \in Channels : ChanOf(ledger')[c] >= ChanOf(ledger)[c]]_vars

\* C5: once archiving has taken every instance that references channel c out
\* of the active ledger, the next getChannelJobNumber(c), called by the
\* process that issued the highest number for c or by a process started
\* after that number was issued, returns that highest number plus 1.
C5_NextNumberAfterArchiving ==
  lastIssue # <<>> =>
    LET k == lastIssue[1]
    IN k.archivedOut /\ k.sameOrLater => k.n = k.highest + 1

\* The ids of the instances of a job in the ledger file and the archive files
StoredIds(jobId) == {x.id : x \in {y \in Stored : y.jobId = jobId}}
JobIds == {generateJobId(j) : j \in Jobs} \cup {UrlId(j) : j \in Jobs}

Numbered(jobId) ==
  /\ \A a, b \in StoredIds(jobId) : a # b => a[3] # b[3]
  /\ {a[3] : a \in StoredIds(jobId)} = 1..Cardinality(StoredIds(jobId))

\* C6: between saves, the instance numbers of a job over the ledger file
\* and the archive files together are 1..n without repeat or gap, and a
\* newly created instance has a number greater than every earlier instance
\* of its job.
C6_InstanceNumbers ==
  [][/\ Quiet' => \A jobId \in JobIds : Numbered(jobId)'
     /\ \A i \in created' \ created : \A e \in created :
          e.jobId = i.jobId => i.instanceNumber > e.instanceNumber]_vars

\* The instances hasBeenPosted is to match: those under the primary id, or,
\* only when there are none, those under the content-hash id of the job.
Primary(k, jobs) == {x \in jobs : x.jobId = k.jobId}
ByHash(k, jobs) ==
  IF k.jobData = <<>> THEN {} ELSE {x \in jobs : x.jobId = k.jobData[1].hash}
Matching(k, jobs) == IF Primary(k, jobs) # {} THEN Primary(k, jobs) ELSE ByHash(k, jobs)

SourceAge(k) == k.at - k.jobData[1].src[1]
HasSource(k) == k.jobData # <<>> /\ k.jobData[1].src # <<>>
FreshSource(k) == HasSource(k) /\ SourceAge(k) <= Days(ReopeningWindowDays)
StaleSource(k) == HasSource(k) /\ SourceAge(k) > Days(ReopeningWindowDays)

Reopening(k) ==
  LET m == Matching(k, Range(data[k.p].jobs))
  IN m # {} /\ (\A x \in m : ~IsActive(x, k.at)) /\ FreshSource(k)

\* Instances of the job of a newly created instance i stored before it
Earlier(i) ==
  {x \in Stored \cup UNION {Range(data[p].jobs) : p \in Procs} : x.jobId = i.jobId}

\* C7: when every stored instance of the job is older than the active
\* window and the job's source date is within the reopening window,
\* hasBeenPosted returns false, also when the earliest instance is older
\* than the staleness ceiling; and an instance created with such a source
\* date gets the highest existing instance number plus 1.
C7_ReopeningAllowed ==
  [][/\ check' # <<>> /\ Reopening(check[1])' => check'[1].result = FALSE
     /\ \A i \in created' \ created :
          (/\ Earlier(i) # {}
           /\ \A x \in Earlier(i) : ~IsActive(x, now)
           /\ i.sourceDate # <<>>
           /\ now - i.sourceDate[1] <= Days(ReopeningWindowDays))
          => i.instanceNumber = Max({x.instanceNumber : x \in Earlier(i)}) + 1]_vars

\* C8: when the job has an earlier instance that has aged out of the active
\* window, in the loaded ledger or already in an archive file, and the
\* job's source date is older than the reopening window, hasBeenPosted
\* returns true.
C8_StaleSourceDenied ==
  check # <<>> =>
    LET k == check[1]
        m == Matching(k, Range(data[k.p].jobs) \cup ArchivedJobs)
    IN (\E x \in m : ~IsActive(x, k.at)) /\ StaleSource(k) => k.result = TRUE

\* C9: when an instance matching the job, under its primary id or, only if
\* that matches none, under its content-hash id, was posted inside the
\* active window, hasBeenPosted returns true whatever the source date.
C9_ActiveInstanceDenied ==
  check # <<>> =>
    LET k == check[1]
    IN (\E x \in Matching(k, Range(data[k.p].jobs)) : IsActive(x, k.at))
         => k.result = TRUE

C9_Witness ==
  /\ check # <<>>
  /\ Primary(check[1], Range(data[check[1].p].jobs)) = {}
  /\ \E x \in ByHash(check[1], Range(data[check[1].p].jobs)) : IsActive(x, check[1].at)
  /\ HasSource(check[1])
  /\ check[1].result = TRUE

\* The month archive files that hold an instance with this id
ArchivesOf(id) == {m \in Months : \E x \in Range(archive[m]) : x.id = id}

\* Process p has completed a save cycle and no other process is inside one
SaveCompleted(p) ==
  /\ pc[p] = "verify"
  /\ Len(LedgerJobs) = Len(data[p].jobs)
  /\ \A q \in Procs \ {p} : pc[q] \in {"init", "ready"}

\* C10: after a completed save cycle, every instance older than the
\* active window is in exactly one month archive, that of the month of its
\* postedAt, and not in the ledger file; and every instance ever created is
\* in the ledger file or in an archive.
C10_ArchivingInvariant ==
  \A p \in Procs : SaveCompleted(p) =>
    /\ \A x \in Stored :
         ~IsActive(x, now) =>
           /\ ArchivesOf(x.id) = {MonthOf(x.postedToDiscord)}
           /\ \A y \in Range(LedgerJobs) : y.id # x.id
    /\ \A i \in created : \E x \in Stored : x.id = i.id

\* A step of process p out of the stage st of its save
Leaves(p, st) == pc[p] = st /\ pc'[p] # st

\* C11: a save returns only through a verification that read back the
\* number of jobs it meant to write; a write of the archive or of the
\* ledger either takes effect or ends the process; a process that has
\* exited stays so and changes neither its memory nor any file.
C11_FailedSaveExits ==
  [][\A p \in Procs :
       /\ pc'[p] = "ready" /\ InSave(p) =>
            pc[p] = "verify" /\ Len(LedgerJobs) = Len(data[p].jobs)
       /\ Leaves(p, "archwrite") =>
            \/ pc'[p] = "dead"
            \/ \A x \in Range(queue[p][1].jobs) :
                 \E y \in Range(archive'[queue[p][1].month]) : y.id = x.id
       /\ Leaves(p, "write") => pc'[p] = "dead" \/ tmpLedger' = <<data[p]>>
       /\ Leaves(p, "rename") => pc'[p] = "dead" \/ (tmpLedger # <<>> /\ ledger' = tmpLedger)
       /\ pc[p] = "dead" =>
            /\ pc'[p] = "dead"
            /\ <<data[p], session[p]>>' = <<data[p], session[p]>>
            /\ (\A q \in Procs : ~InSave(q)) => UNCHANGED files]_vars

\* A process has exited on a ledger that differs from what it meant to write
\* while the other goes on.
C11_Witness ==
  \E p \in Procs :
    /\ pc[p] = "dead"
    /\ ledger # <<>> /\ Len(LedgerJobs) # Len(data[p].jobs)
    /\ \E q \in Procs : pc[q] = "ready"

\* The batch just run, its TTL, and the store after its eviction
TTLOf(b) == DEDUPE_TTL_MS(b.version)
Evicted(b) == b.stores[1]
HasKeys(store, j) ==
  j.id \in DOMAIN store.ids /\ j.fingerprint \in DOMAIN store.fingerprints

\* C12: a job recorded (net-new) at T and seen again in the batch at
\* T+TTL-1 has both its keys in the store after the eviction of a batch at
\* T+2*TTL-2.
C12_RecheckExtendsLife ==
  batch # <<>> =>
    LET b == batch[1]
    IN \A j \in DedupeJobs :
         (/\ b.lastSeen[j] = b.at - (TTLOf(b) - 1)
          /\ b.recordedAt[j] = b.lastSeen[j] - (TTLOf(b) - 1))
         => HasKeys(Evicted(b), j)

\* Key k of map m of the store the batch loaded was set at least TTL ago and
\* no batch has held a job with it since
Expired(b, m, k, holders) ==
  /\ m[k] + TTLOf(b) <= b.at
  /\ \A j \in holders : b.lastSeen[j] <= m[k]

\* C13: a key recorded at T and not seen since is not in the store after
\* the eviction of a batch at T+TTL or later.
C13_EvictedAtTTL ==
  batch # <<>> =>
    LET b == batch[1]
    IN /\ \A k \in DOMAIN b.before.ids :
            Expired(b, b.before.ids, k, {j \in DedupeJobs : j.id = k})
              => k \notin DOMAIN Evicted(b).ids
       /\ \A k \in DOMAIN b.before.fingerprints :
            Expired(b, b.before.fingerprints, k, {j \in DedupeJobs : j.fingerprint = k})
              => k \notin DOMAIN Evicted(b).fingerprints

IsSetTo(m, k, t) == k \in DOMAIN m /\ m[k] = t

\* C14: each job of a batch is classed Duplicate when its id or its
\* fingerprint is in the store, and every key that matched then has the
\* current time; otherwise both keys are recorded with the current time and
\* the job is classed NetNew.
C14_CheckAndMark ==
  batch # <<>> =>
    LET b == batch[1]
    IN \A i \in DOMAIN b.jobs :
         LET job == b.jobs[i]
             before == b.stores[i]
             after == b.stores[i + 1]
             idIn == job.id \in DOMAIN before.ids
             fpIn == job.fingerprint \in DOMAIN before.fingerprints
         IN IF idIn \/ fpIn
            THEN /\ b.classes[i] = "Duplicate"
                 /\ idIn => IsSetTo(after.ids, job.id, b.at)
                 /\ fpIn => IsSetTo(after.fingerprints, job.fingerprint, b.at)
            ELSE /\ b.classes[i] = "NetNew"
                 /\ IsSetTo(after.ids, job.id, b.at)
                 /\ IsSetTo(after.fingerprints, job.fingerprint, b.at)

\* Job i of the batch was checked before, in this batch or in a batch less
\* than TTL ago
CheckedBefore(b, i) ==
  \/ \E k \in 1..(i - 1) : b.jobs[k] = b.jobs[i]
  \/ b.lastSeen[b.jobs[i]] >= 0 /\ b.at - b.lastSeen[b.jobs[i]] < TTLOf(b)

\* C15: a job checked a second time within the TTL is classed Duplicate,
\* and that check adds no id key and no fingerprint key to the store.
C15_SecondCheckIdempotent ==
  batch # <<>> =>
    LET b == batch[1]
    IN \A i \in DOMAIN b.jobs :
         CheckedBefore(b, i) =>
           /\ b.classes[i] = "Duplicate"
           /\ DOMAIN b.stores[i + 1].ids = DOMAIN b.stores[i].ids
           /\ DOMAIN b.stores[i + 1].fingerprints = DOMAIN b.stores[i].fingerprints

\* A batch holds a job twice, and a job of a batch run earlier within the TTL
C15_Witness ==
  /\ batch # <<>>
  /\ \E i \in DOMAIN batch[1].jobs :
       /\ \E k \in 1..(i - 1) : batch[1].jobs[k] = batch[1].jobs[i]
       /\ batch[1].classes[i] = "Duplicate"
  /\ \E i \in DOMAIN batch[1].jobs :
       /\ batch[1].lastSeen[batch[1].jobs[i]] >= 0
       /\ batch[1].at - batch[1].lastSeen[batch[1].jobs[i]] = TTLOf(batch[1]) - 1
       /\ batch[1].classes[i] = "Duplicate"

\* Key k of map m of the loaded store was set less than TTL ago
Fresh(b, m, k) == k \in DOMAIN m /\ b.at - m[k] < TTLOf(b)

\* C16: the list returned as unique holds no two jobs with the same id or the
\* same fingerprint, and no job whose id or fingerprint an earlier batch
\* recorded less than TTL ago.
C16_UniqueHasNoDuplicates ==
  batch # <<>> =>
    LET b == batch[1]
    IN /\ \A i, k \in DOMAIN b.unique :
            i # k => /\ b.unique[i].id # b.unique[k].id
                     /\ b.unique[i].fingerprint # b.unique[k].fingerprint
       /\ \A u \in Range(b.unique) :
            /\ ~Fresh(b, b.before.ids, u.id)
            /\ ~Fresh(b, b.before.fingerprints, u.fingerprint)

-----------------------------------------------------------------------------
(* The global delivery ledger *)

Entries(c) == c.before.fingerprints
Age(c) == c.at - Entries(c)[c.fingerprint].postedAt

(* C17: hasBeenPosted(F) returns true if and only if this.store holds an   *)
(* entry for F and the time since its postedAt is at most 14 days: true 13 *)
(* days after the mark, false 15 days after it.                            *)
C17_TrueIffWithinTTL ==
  \A c \in Range(gcheck) :
     /\ c.result <=> /\ c.fingerprint \in DOMAIN Entries(c)
                     /\ Age(c) <= Days(TTL_DAYS)
     /\ c.fingerprint \in DOMAIN Entries(c) /\ Age(c) = Days(13) => c.result
     /\ c.fingerprint \in DOMAIN Entries(c) /\ Age(c) = Days(15) => ~c.result

\* A check 13 days after the mark answers true
C17_Witness ==
  \E c \in Range(gcheck) :
     c.fingerprint \in DOMAIN Entries(c) /\ Age(c) = Days(13) /\ c.result

(* C18: a check leaves every entry it keeps as it was and adds none, and   *)
(* a fingerprint marked once, at time T, is reported as not posted by      *)
(* every check made after T + 14 days, whatever checks were made before.   *)
C18_CheckNeverExtends ==
  \A c \in Range(gcheck) :
     /\ DOMAIN c.after.fingerprints \subseteq DOMAIN Entries(c)
     /\ \A f \in DOMAIN c.after.fingerprints :
          c.after.fingerprints[f] = Entries(c)[f]
     /\ \A T \in c.marks :
          c.marks = {T} /\ c.at > T + Days(TTL_DAYS) => ~c.result

\* A fingerprint marked once and found by an earlier check is checked after
\* its 14 days, while this.store still holds the entry
C18_Witness ==
  \E c \in Range(gcheck) :
     /\ c.fingerprint \in DOMAIN Entries(c)
     /\ c.hits
     /\ \E T \in c.marks : c.marks = {T} /\ c.at > T + Days(TTL_DAYS)
     /\ ~c.result

-----------------------------------------------------------------------------
(* Damaged store files *)

Damaged(pr) == pr.file.kind # "object" \/ pr.file.fields # Expected(pr.store)

(* C19: a store loaded from a file that cannot be parsed or lacks expected *)
(* fields starts as the empty store, and every later operation returns as  *)
(* on an empty store: none throws, none ends the process.                  *)
C19_DamagedFileLoadsEmpty ==
  \A pr \in Range(probe) :
     Damaged(pr) /\ pr.loaded # <<>> =>
       /\ pr.loaded[1] = EmptyOf(pr.store)
       /\ \A op \in DOMAIN pr.outcomes : pr.outcomes[op] = "returns"

\* The posting ledger loaded from a file without metadata, and a save called
C19_Witness ==
  \E pr \in Range(probe) :
     /\ pr.store = "posting"
     /\ pr.file = [kind |-> "object", fields |-> {"version", "jobs"}]
     /\ "save" \in DOMAIN pr.outcomes

-----------------------------------------------------------------------------
(* The poster run *)

(* C20: a job is sent only after the global check and the posting ledger   *)
(* check allowed it; when the checks were made the process's ledger held   *)
(* no instance of the job inside the active window and its global store    *)
(* no unexpired entry of its fingerprint; and every delivery sent earlier  *)
(* in the run is in the posting ledger and the global store of the process *)
(* by the time of the next send.                                           *)
C20_SentOnlyWhenAllowed ==
  \A s \in Range(lastSend) :
     /\ s.allowed.global /\ s.allowed.posting
     /\ ~s.active
     /\ ~s.unexpired
     /\ s.earlier \subseteq s.inLedger \cap s.inGlobal

\* A second send in a run: the first delivery is recorded in both ledgers
C20_Witness ==
  \E s \in Range(lastSend) :
     s.earlier # {} /\ s.earlier \subseteq s.inLedger \cap s.inGlobal

-----------------------------------------------------------------------------
(* hasBeenPosted at the boundaries of its windows *)

\* The instances of this.data that hasBeenPosted call k matched
Matched(k) == Matching(k, Range(data[k.p].jobs))
AllInactive(k) == \A x \in Matched(k) : ~IsActive(x, k.at)
OldestAge(k) == k.at - Min({x.postedToDiscord : x \in Matched(k)})
ThreeMonths == Days(ReopenMonths * MonthDays)

(* C21: when every matching instance is older than the active window and   *)
(* the job carries no source date, hasBeenPosted returns false (deliver)   *)
(* if the oldest instance is more than 90 days old, and true if it is less *)
(* than 90 days old.                                                       *)
C21_NoSourceDateHeuristic ==
  \A k \in Range(check) :
     Matched(k) # {} /\ AllInactive(k) /\ ~HasSource(k) =>
       /\ OldestAge(k) > ThreeMonths => k.result = FALSE
       /\ OldestAge(k) < ThreeMonths => k.result = TRUE

\* A job without source date is checked against an instance over 90 days old
C21_Witness ==
  \E k \in Range(check) :
     /\ Matched(k) # {} /\ AllInactive(k) /\ ~HasSource(k)
     /\ OldestAge(k) > ThreeMonths

(* C22: hasBeenPosted returns false only when no instance matches the job, *)
(* or when every matching instance is outside the active window and either *)
(* the job's source date is within the reopening window or the job has no  *)
(* source date and its oldest instance is at least 3 months old.           *)
C22_FailsClosed ==
  \A k \in Range(check) :
     k.result = FALSE =>
       \/ Matched(k) = {}
       \/ /\ AllInactive(k)
          /\ \/ FreshSource(k)
             \/ ~HasSource(k) /\ OldestAge(k) >= ThreeMonths

\* The default is reached: every instance inactive, none past the ceiling of
\* the original post, no source date, and the answer is true
C22_Witness ==
  \E k \in Range(check) :
     /\ Matched(k) # {} /\ AllInactive(k) /\ ~HasSource(k)
     /\ OldestAge(k) <= Days(OriginalPostMaxDays)
     /\ k.result = TRUE

-----------------------------------------------------------------------------
(* markAsPostedToChannel *)

\* The instances of job j in this.data of process p
InstancesOf(p, j) == {x \in Range(data[p].jobs) : x.jobId = generateJobId(j)}
PostedToday(x) == DayOf(x.postedToDiscord) = DayOf(now)

\* The condition of lines 282-294: no active instance is found, and the job
\* has an instance posted this calendar day
SameDayGuard(p, j) ==
  /\ \A x \in InstancesOf(p, j) : ~IsActive(x, now)
  /\ \E x \in InstancesOf(p, j) : PostedToday(x)

ActiveOf(p, j) == {i \in DOMAIN data[p].jobs :
                     /\ data[p].jobs[i].jobId = generateJobId(j)
                     /\ IsActive(data[p].jobs[i], now)}

(* C24: a call of markAsPostedToChannel creates an instance only when the  *)
(* job has no instance inside the active window, and after any sequence of *)
(* such calls and saves of one process at a time the ledger in memory and  *)
(* on disk holds at most one active instance of each job.                  *)
C24_OneActiveInstance ==
  [][/\ \A i \in created' \ created : \A p \in Procs : \A x \in Range(data[p].jobs) :
          x.jobId = i.jobId => ~IsActive(x, now)
     /\ \A p \in Procs, j \in Jobs : Cardinality(ActiveOf(p, j)') <= 1
     /\ Cardinality({i \in DOMAIN LedgerJobs' : IsActive(LedgerJobs'[i], now')}) <= 1]_vars

\* A call has just created an instance beside an expired one
C24_Witness ==
  \E k \in Range(lastIssue) : \E j \in Jobs :
     /\ Cardinality(ActiveOf(k.p, j)) = 1
     /\ \E x \in InstancesOf(k.p, j) : ~IsActive(x, now)

\* Instance b is instance a but for its delivery to channel c
SameButPost(a, b, c) ==
  /\ [a EXCEPT !.discordPosts = <<>>] = [b EXCEPT !.discordPosts = <<>>]
  /\ DOMAIN b.discordPosts = DOMAIN a.discordPosts \cup {c}
  /\ \A x \in DOMAIN a.discordPosts \ {c} : b.discordPosts[x] = a.discordPosts[x]

\* The call changed at most the delivery to c of one instance, the one at index at
FrameOf(before, after, at, c) ==
  /\ Len(after) \in {Len(before), Len(before) + 1}
  /\ at \in DOMAIN after
  /\ Len(after) > Len(before) => at = Len(after) /\ DOMAIN after[at].discordPosts = {c}
  /\ \A i \in DOMAIN before :
       IF i = at THEN SameButPost(before[i], after[i], c) ELSE after[i] = before[i]

-----------------------------------------------------------------------------
(* The boundary of the active window *)

WithinWindow(x, t) == t - x.postedToDiscord <= Days(ActiveWindowDays)
ArchivedIds == {x.id : x \in ArchivedJobs}

(* C26: an instance whose age is at most the active window, exactly the    *)
(* window included, is not written to an archive file, and hasBeenPosted   *)
(* returns true for a job that has such an instance.                       *)
C26_BoundaryStillActive ==
  [][/\ \A x \in ArchivedJobs' : x.id \notin ArchivedIds => ~WithinWindow(x, now)
     /\ \A k \in Range(check') :
          (\E x \in Matched(k)' : WithinWindow(x, k.at)) => k.result = TRUE]_vars

\* hasBeenPosted is asked about a job whose instance is exactly 7 days old
C26_Witness ==
  \E k \in Range(check) :
     \E x \in Matched(k) : k.at - x.postedToDiscord = Days(ActiveWindowDays)

-----------------------------------------------------------------------------
(* The archive directory as a starting process may find it: files of one   *)
(* or two instances, empty arrays, files that do not parse, files that     *)
(* hold an object.                                                         *)

ScanMonths == 0..(MaxFiles - 1)

Delivered1 == [Instance("h1", 0, <<>>, 1) EXCEPT !.discordPosts = SetPost(<<>>, "c1", 1)]
Delivered2 ==
  [Instance("h1", Days(ActiveWindowDays + 1), <<>>, 2)
     EXCEPT !.discordPosts = SetPost(SetPost(<<>>, "c1", 2), "c2", 1)]

ArchiveContents ==
  {[kind |-> "garbage", jobs |-> <<>>], [kind |-> "object", jobs |-> <<>>]}
    \cup {[kind |-> "array", jobs |-> s] :
            s \in {<<>>, <<Delivered1>>, <<Delivered1, Delivered2>>}}

FindArchives(dir) ==
  /\ scan = <<>>
  /\ scan' = <<[dir |-> dir, counts |-> <<>>]>>

\* constructor line 33: this.archiveChannelCounts = this.loadArchiveChannelCounts()
LoadArchiveChannelCounts ==
  /\ scan # <<>>
  /\ scan[1].counts = <<>>
  /\ scan' = <<[scan[1] EXCEPT !.counts = <<archiveChannelCounts(scan[1].dir)>>]>>

NextScan ==
  /\ UNCHANGED <<now, advances, ops, posting, dedupe, global, probe, poster, tempfile>>
  /\ \/ \E dir \in [ScanMonths -> ArchiveContents] : FindArchives(dir)
     \/ LoadArchiveChannelCounts

SpecScan == Init /\ [][NextScan]_vars

-----------------------------------------------------------------------------
(* SpecAtomic: two runs whose saves interleave at the level of the system  *)
(* calls on the temp file, and which may be killed inside a save or fail   *)
(* on a write.                                                             *)

NextAtomic ==
  /\ UNCHANGED <<dedupe, global, probe, poster, scan>>
  /\ \/ \E p \in Procs : Load(p) /\ UNCHANGED tempfile
     \/ \E p \in Procs, j \in Jobs :
          ops < MaxOps /\ PosterDeliver(p, j, <<>>, "c1") /\ UNCHANGED tempfile
     \/ \E p \in Procs : ops < MaxOps /\ Save(p) /\ UNCHANGED tempfile
     \/ \E p \in Procs : Reload(p) /\ UNCHANGED tempfile
     \/ \E p \in Procs : OpenTmp(p)
     \/ \E p \in Procs : WriteOpen(p)
     \/ \E p \in Procs : WriteOpenFails(p)
     \/ \E p \in Procs : Rename(p)
     \/ \E p \in Procs : Verify(p) /\ UNCHANGED tempfile
     \/ \E p \in Procs : Crash(p)

SpecAtomic == Init /\ [][NextAtomic]_vars

-----------------------------------------------------------------------------
(* Two long-lived processes saving at the same time: "p1" delivers through *)
(* markAsPostedToChannel, "p2" records through markAsPosted, so that their *)
(* instances carry different ids; the clock moves between saves only.      *)

NextArchive ==
  /\ UNCHANGED <<dedupe, global, probe, poster, tempfile, scan>>
  /\ \/ Quiet /\ Advance(Days(ActiveWindowDays + 1))
     \/ \E p \in Procs : Quiet /\ Load(p)
     \/ \E j \in Jobs : ops < MaxRunCalls /\ PosterDeliver("p1", j, <<>>, "c1")
     \/ \E j \in Jobs : ops < MaxRunCalls /\ MarkAsPosted("p2", j, <<>>)
     \/ \E p \in Procs : ops < MaxRunCalls /\ Save(p)
     \/ \E p \in Procs : Reload(p)
     \/ \E p \in Procs : ArchRead(p)
     \/ \E p \in Procs : ArchWrite(p)
     \/ \E p \in Procs : WriteTmp(p)
     \/ \E p \in Procs : Rename(p)
     \/ \E p \in Procs : Verify(p)

SpecArchive == Init /\ [][NextArchive]_vars

(* SpecNumbers: runs of one process that deliver to both channels, with    *)
(* and without a number supplied, and save, beside a process that only     *)
(* saves; eight days may pass between two save cycles, so that a save      *)
(* archives what an earlier call recorded.                                 *)

NextNumbers ==
  /\ UNCHANGED <<dedupe, global, probe, poster, tempfile, scan>>
  /\ \/ Quiet /\ Advance(Days(ActiveWindowDays + 1))
     \/ \E p \in Procs : Quiet /\ Load(p)
     \/ Quiet /\ Exit("p1")
     \/ \E j \in Jobs, c \in Channels :
          Quiet /\ ops < MaxRunCalls /\ PosterDeliver("p1", j, <<>>, c)
     \/ \E j \in Jobs, c \in Channels :
          Quiet /\ ops < MaxRunCalls /\ MarkAsPostedToChannel("p1", j, <<>>, c)
     \/ Quiet /\ ops < MaxRunCalls /\ Save("p2")
     \/ \E p \in Procs : Reload(p)
     \/ \E p \in Procs : ArchRead(p)
     \/ \E p \in Procs : ArchWrite(p)
     \/ \E p \in Procs : WriteTmp(p)
     \/ \E p \in Procs : Rename(p)
     \/ \E p \in Procs : Verify(p)

SpecNumbers == Init /\ [][NextNumbers]_vars

-----------------------------------------------------------------------------
(* Archive files *)

IsSortedByPosted(s) ==
  \A i, k \in DOMAIN s : i < k => s[i].postedToDiscord <= s[k].postedToDiscord
NoTwoWithSameId(s) == \A i, k \in DOMAIN s : i # k => s[i].id # s[k].id

(* C27: every record of a month's archive file stays in that file with the *)
(* same content whatever is saved later, no archive file holds two records *)
(* with the same instance id, and the records of a file are sorted by      *)
(* postedToDiscord ascending.                                              *)
C27_ArchivesPermanent ==
  [][\A m \in Months :
       /\ Range(archive[m]) \subseteq Range(archive'[m])
       /\ NoTwoWithSameId(archive'[m])
       /\ IsSortedByPosted(archive'[m])]_vars

\* An archive file that was merged with a later save: it holds two records
C27_Witness == \E m \in Months : Len(archive[m]) >= 2

-----------------------------------------------------------------------------
(* The first channel number of a process *)

\* The deliveries to channel c recorded in the memory of p or in an archive
\* file, each instance once
DeliveriesTo(p, c) ==
  {x.id : x \in {y \in Range(data[p].jobs) \cup ArchivedJobs :
                   c \in DOMAIN y.discordPosts}}

\* This step is the first getChannelJobNumber(c) of p and no number of c is
\* persisted in the metadata p holds
FirstCallUnpersisted(p, c) ==
  /\ session[p][c] = -1
  /\ session'[p][c] # -1
  /\ data[p].chan[c] = 0

(* C28: the first getChannelJobNumber(c) of a process that holds no         *)
(* persisted number for c starts from the number of deliveries to c in the  *)
(* active ledger plus those in the archive files, each counted once, also   *)
(* after a save of this process moved instances to an archive.              *)
C28_FirstNumberCountsAll ==
  [][\A p \in Procs, c \in Channels :
       FirstCallUnpersisted(p, c) =>
         session'[p][c] = Cardinality(DeliveriesTo(p, c)) + 1]_vars

\* A process has made its first call for a channel, holding no persisted
\* number, while an archive file holds a delivery to that channel
C28_Witness ==
  /\ lastIssue # <<>>
  /\ \E p \in Procs, c \in Channels :
       /\ lastIssue[1].p = p /\ lastIssue[1].c = c
       /\ session[p][c] = lastIssue[1].n
       /\ data[p].chan[c] = 1
       /\ \E x \in ArchivedJobs : c \in DOMAIN x.discordPosts

-----------------------------------------------------------------------------
(* Channel counts from a damaged archive directory *)

\* The deliveries to c recorded in the files of dir that hold an array
ReadablePosts(dir, c) ==
  {<<m, i>> \in (DOMAIN dir) \X (1..2) :
     /\ dir[m].kind = "array"
     /\ i \in DOMAIN dir[m].jobs
     /\ c \in DOMAIN dir[m].jobs[i].discordPosts}

(* C29: loadArchiveChannelCounts skips a file that cannot be parsed or     *)
(* holds no array and returns, per channel, the deliveries of every other  *)
(* file of the directory.                                                  *)
C29_DamagedArchiveSkipped ==
  \A s \in Range(scan) :
     s.counts # <<>> =>
       \A c \in Channels : s.counts[1][c] = Cardinality(ReadablePosts(s.dir, c))

\* Counts read from a directory with a file that does not parse, a file that
\* holds an object and a file with deliveries
C29_Witness ==
  \E s \in Range(scan) :
     /\ s.counts # <<>>
     /\ \E a, b, d \in DOMAIN s.dir :
          /\ s.dir[a].kind = "garbage"
          /\ s.dir[b].kind = "object"
          /\ s.dir[d].jobs # <<>>
     /\ s.counts[1]["c1"] > 0

-----------------------------------------------------------------------------
(* The ledger file under overlapping and interrupted saves *)

(* C30: at every point of any interleaving of the saves of two processes,  *)
(* and after a save was killed at any step, the ledger file holds a        *)
(* complete document written by one save: it is never empty, cut short or  *)
(* a mix of two writes.                                                    *)
C30_LedgerAlwaysWhole == ~Torn("ledger")

\* A save was killed after it had opened the temp file, and a later save of
\* the other process has replaced the ledger
C30_Witness ==
  \E p, q \in Procs :
     /\ pc[p] = "dead"
     /\ pc[q] = "verify"
     /\ ledger = <<data[q]>>
     /\ data[q].jobs # <<>>

-----------------------------------------------------------------------------
(* The dedupe store file under an interrupted save *)

(* C31: whatever step of saveDedupeStore a crash interrupts, the store     *)
(* file holds the complete content it had before the save or the complete  *)
(* content the save wrote, never a part of it.                             *)
C31_StoreOldOrNew ==
  /\ ~dsave.torn
  /\ dsave.next # <<>> => storeFile \in {dsave.before, dsave.next}

\* A save was interrupted during its write: a part of the temp file is left
\* and the store file holds what it held before
C31_Witness ==
  /\ dsave.step = "down"
  /\ dsave.tmp = "part"
  /\ storeFile # <<>>
  /\ storeFile = dsave.before
  /\ storeFile # dsave.next

-----------------------------------------------------------------------------
(* Eviction before the checks of a batch *)

\* Key k of map m is older than the TTL at the time of batch b
OlderThanTTL(b, m, k) == m[k] < b.at - TTLOf(b)
AllWithinTTL(b, store) ==
  /\ \A k \in DOMAIN store.ids : ~OlderThanTTL(b, store.ids, k)
  /\ \A k \in DOMAIN store.fingerprints : ~OlderThanTTL(b, store.fingerprints, k)

(* C32: the eviction of a batch runs once, before its first job is         *)
(* checked: the store the first check sees holds no key older than the     *)
(* TTL, no key disappears during the checks, a job is classed Duplicate    *)
(* only for a key that is not older than the TTL, and at the end of the    *)
(* batch every key of the store has a timestamp within the last TTL.       *)
C32_EvictionBeforeChecks ==
  batch # <<>> =>
    LET b == batch[1]
    IN /\ AllWithinTTL(b, Evicted(b))
       /\ \A k \in DOMAIN b.before.ids :
            ~OlderThanTTL(b, b.before.ids, k) => k \in DOMAIN Evicted(b).ids
       /\ \A k \in DOMAIN b.before.fingerprints :
            ~OlderThanTTL(b, b.before.fingerprints, k)
              => k \in DOMAIN Evicted(b).fingerprints
       /\ \A i \in DOMAIN b.jobs :
            /\ DOMAIN b.stores[i].ids \subseteq DOMAIN b.stores[i + 1].ids
            /\ DOMAIN b.stores[i].fingerprints \subseteq DOMAIN b.stores[i + 1].fingerprints
            /\ b.classes[i] = "Duplicate" =>
                 \/ /\ b.jobs[i].id \in DOMAIN b.stores[i].ids
                    /\ ~OlderThanTTL(b, b.stores[i].ids, b.jobs[i].id)
                 \/ /\ b.jobs[i].fingerprint \in DOMAIN b.stores[i].fingerprints
                    /\ ~OlderThanTTL(b, b.stores[i].fingerprints, b.jobs[i].fingerprint)
       /\ AllWithinTTL(b, b.stores[Len(b.stores)])
       /\ storeFile = <<b.stores[Len(b.stores)]>>

\* A batch loaded a store with both keys of one of its jobs older than the
\* TTL and classed the job net-new
C32_Witness ==
  /\ batch # <<>>
  /\ \E i \in DOMAIN batch[1].jobs :
       LET b == batch[1]
           job == b.jobs[i]
       IN /\ job.id \in DOMAIN b.before.ids
          /\ OlderThanTTL(b, b.before.ids, job.id)
          /\ job.fingerprint \in DOMAIN b.before.fingerprints
          /\ OlderThanTTL(b, b.before.fingerprints, job.fingerprint)
          /\ i = 1
          /\ b.classes[i] = "NetNew"

-----------------------------------------------------------------------------
(* The global delivery ledger of two consumers *)

PersistedEntries(file) == IF file = <<>> THEN <<>> ELSE file[1].fingerprints

(* C33: an entry of the persisted ledger that is within its TTL stays in   *)
(* the persisted ledger, whichever consumer saves next, so a consumer      *)
(* started afterwards finds the fingerprint delivered.                     *)
C33_SavedMarkStays ==
  [][\A f \in DOMAIN PersistedEntries(globalFile) :
       ~PastTTL(PersistedEntries(globalFile)[f], now')
         => f \in DOMAIN PersistedEntries(globalFile')]_vars

\* Both consumers have marked a fingerprint each and saved, one after the other
C33_Witness ==
  /\ \A f \in Fingerprints : marks[f] # {}
  /\ \E p, q \in Procs :
       /\ p # q
       /\ gstore[p] # <<>> /\ gstore[q] # <<>>
       /\ globalFile = gstore[q]
       /\ DOMAIN gstore[p][1].fingerprints # DOMAIN gstore[q][1].fingerprints

-----------------------------------------------------------------------------
(* The fingerprint of a job *)

\* A field lower-cased and without the blanks at its ends, an absent field
\* counting as the empty string
LowerChar(ch) == CASE ch = "A" -> "a" [] ch = "B" -> "b" [] OTHER -> ch
NonBlank(s) == {i \in DOMAIN s : s[i] # " "}
Least(S) == CHOOSE i \in S : \A k \in S : i <= k
Greatest(S) == CHOOSE i \in S : \A k \in S : i >= k
Normal(x) ==
  IF x = Absent \/ NonBlank(x) = {} THEN <<>>
  ELSE [i \in 1..(Greatest(NonBlank(x)) - Least(NonBlank(x)) + 1) |->
          LowerChar(x[i + Least(NonBlank(x)) - 1])]
SameAfterNormalizing(a, b) ==
  /\ Normal(a.title) = Normal(b.title)
  /\ Normal(a.company) = Normal(b.company)
  /\ Normal(a.location) = Normal(b.location)

(* C34: two jobs whose title, company and location are equal after         *)
(* lower-casing and trimming get the same fingerprint, and a second call   *)
(* on the same job returns what the first returned.                        *)
C34_FingerprintOfNormalizedFields ==
  \A c \in Range(fpcall) :
     /\ SameAfterNormalizing(c.a, c.b) => c.fa = c.fb
     /\ c.again = c.fa

\* Two jobs that differ in case and in blanks, with the same fingerprint
C34_Witness ==
  \E c \in Range(fpcall) :
     /\ c.a.title # c.b.title /\ c.a.company # c.b.company
     /\ c.a.location # c.b.location
     /\ c.a.title # Absent /\ Len(c.a.title) = 2 /\ c.b.title # Absent
     /\ c.a.company # Absent /\ c.b.company # Absent
     /\ SameAfterNormalizing(c.a, c.b)
     /\ c.fa = c.fb

-----------------------------------------------------------------------------
(* The numbers one process issues for a channel *)

\* The call that has just returned was made by p for c and returned n
JustIssued(p, c, n) ==
  \E k \in Range(lastIssue') : k.p = p /\ k.c = c /\ k.n = n

(* C35: while a process lives, a step moves its counter of a channel only  *)
(* by a call of getChannelJobNumber for that channel, which returns the    *)
(* counter plus one and leaves the counters of the other channels alone;   *)
(* no step of a save, archiving included, moves a counter, so the next     *)
(* call returns the number after the one returned last.                    *)
C35_ConsecutiveNumbers ==
  [][\A p \in Procs :
       /\ InSave(p) => session'[p] = session[p]
       /\ \A c \in Channels :
            (session[p][c] # -1 /\ session'[p][c] # -1) =>
              /\ session'[p][c] \in {session[p][c], session[p][c] + 1}
              /\ (session'[p][c] # session[p][c]) <=> JustIssued(p, c, session[p][c] + 1)
              /\ JustIssued(p, c, session'[p][c]) =>
                   \A other \in Channels \ {c} : session'[p][other] = session[p][other]]_vars

\* A process has been given 1 and then 2 for a channel; between the two
\* calls it saved and the save archived the delivery numbered 1, and it
\* holds a counter for the other channel
C35_Witness ==
  \E p \in Procs, c \in Channels :
     /\ lastIssue # <<>>
     /\ lastIssue[1].p = p /\ lastIssue[1].c = c /\ lastIssue[1].n = 2
     /\ session[p][c] = 2
     /\ \E x \in ArchivedJobs : c \in DOMAIN x.discordPosts /\ x.discordPosts[c] = 1
     /\ \E other \in Channels \ {c} : session[p][other] # -1

-----------------------------------------------------------------------------
(* The numbers two processes issue for one channel *)

(* C36: a number given to a delivery to a channel was not given to an      *)
(* earlier delivery to that channel, by whichever process; in particular   *)
(* it is not the highest number given for the channel so far.              *)
C36_NumbersNeverRepeat ==
  \A k \in Range(lastIssue) : k.highest > 0 => k.n # k.highest

\* Two processes that loaded the same ledger have each been given a number
\* for the same channel
C36_Witness ==
  \E c \in Channels :
     /\ \A p \in Procs : session[p][c] # -1
     /\ \E k \in Range(lastIssue) : k.c = c /\ k.highest > 0

-----------------------------------------------------------------------------
(* The read-back of a save beside the save of another process *)

\* What line 689 of process p compares: the count read back and its own
ReadBackPasses(p) == ~Torn("ledger") /\ Len(LedgerJobs) = Len(data[p].jobs)

\* The rename of p has put the database of p, whole, at the final path
OwnWriteInPlace(p) == pc[p] = "verify" /\ ledger = <<data[p]>> /\ ~Torn("ledger")

(* C37: when the rename of a process has put its own merged ledger in      *)
(* place, no step another process takes before the read-back makes the     *)
(* read-back fail, so the save aborts only on a write of its own that went *)
(* wrong.                                                                  *)
C37_OnlyOwnWriteAborts ==
  [][\A p \in Procs :
       OwnWriteInPlace(p) /\ pc'[p] = "verify" => ReadBackPasses(p)']_vars

\* A process waits for its read-back with its own ledger in place while the
\* other is about to rename a ledger with another number of jobs
C37_Witness ==
  \E p, q \in Procs :
     /\ OwnWriteInPlace(p)
     /\ pc[q] = "rename" /\ tmpLedger # <<>>
     /\ Len(tmpLedger[1].jobs) # Len(data[p].jobs)

-----------------------------------------------------------------------------
(* A save that fails before its rename *)

\* The stages of savePostedJobs up to the rename of the temp file
BeforeRename == {"reload", "archread", "archwrite", "write", "writing"}

(* C38: the step at which a save fails before it has renamed its temp file *)
(* leaves the ledger file at its final path with the content it had.       *)
C38_FailedSaveLeavesLedger ==
  [][\A p \in Procs :
       pc[p] \in BeforeRename /\ pc'[p] = "dead" =>
         /\ ledger' = ledger
         /\ Torn("ledger")' <=> Torn("ledger")]_vars

\* A save has failed or was killed before its rename while the ledger file
\* held the jobs of an earlier save
C38_Witness ==
  \E p \in Procs :
     /\ pc[p] = "dead"
     /\ fd[p] = "none"
     /\ ledger # <<>> /\ ~Torn("ledger")
     /\ ledger[1].jobs # <<>>
     /\ ledger[1] # data[p]

====
